---- MODULE Spec2Model ----
(***************************************************************************)
(* The Intcode engine of src/src/intcode.rs (Computer, Argument,           *)
(* Instruction) as a state machine.  Spec and SpecOutput: one Computer is  *)
(* built by Computer::new and driven by a caller through run() and         *)
(* output(); every iteration of run()'s loop is one step().  NetSpec: the  *)
(* five-engine feedback network of src/src/day7.rs (part 2).  Cell values  *)
(* are mathematical integers: the engine is generic over the integer type  *)
(* T and no width is fixed here.                                           *)
(***************************************************************************)
EXTENDS Integers, Sequences, FiniteSets, TLC

VARIABLES
    computer,      \* the Computer struct: memory, loc, running, input, output, alt_output, relative_base
    pc,            \* the caller: "idle" (outside run), "run" (inside run's loop), "panicked" (unwinding)
    calls,         \* number of run() calls made so far
    steps,         \* number of step() calls made so far
    decoded,       \* what the last step() got from read_instruction_code (or None)
    instruction,   \* what the last step() got from Instruction::new (or None)
    step_result,   \* the Result of the last step()
    run_result,    \* the Result of the last run() that returned
    program,       \* the memory Vec the caller gave to Computer::new
    supplied,      \* the input queue the caller gave to Computer::new
    inputs_done,   \* number of Input instructions executed successfully so far
    emitted,       \* the values of the Output instructions executed so far, in order
    snapshots,     \* what the output() calls returned since the caller last called run()
    before,        \* the Computer struct as the last step() found it (or None)
    amps,          \* day7 part 2: the five engines amp_a .. amp_e, as 1 .. 5
    seeds,         \* day7 part 2: the detached threads of send_phase*, one per channel
    threads,       \* day7 part 2: the thread each engine runs on (5: the main thread)
    received,      \* day7 part 2: what each engine's rx.recv() has returned, in order
    sent,          \* day7 part 2: what each engine has handed to a tx.send() that returned, in order
    reported,      \* day7 part 2: the element taken from amp_e.output()
    process,       \* day7 part 2: "up", or how the process ended
    chain,         \* day7 part 1: the loops over the permutations and over the phases (or None)
    day2           \* day2: the Computer of day2.rs run beside the engine of intcode.rs (or None)

\* a let binding: the value is computed once, as the one element of a set
The(S) == CHOOSE x \in S : TRUE

vars == <<computer, pc, calls, steps, decoded, instruction, step_result, run_result,
          program, supplied, inputs_done, emitted, snapshots, before,
          amps, seeds, threads, received, sent, reported, process, chain, day2>>

\* the state of day7 part 1 and of the day2 engine
side_vars == <<chain, day2>>

\* the state of the day7 network
net_vars == <<amps, seeds, threads, received, sent, reported, process>>

----------------------------------------------------------------------------
\* Bounds of the model.

\* longest generated program
MaxLen == 4
\* step() calls explored on one engine
MaxSteps == 4
\* run() calls the caller makes on one engine
MaxCalls == 2
\* longest caller-supplied input queue
MaxInput == 2
\* raw instruction words -MaxRaw..MaxRaw are decoded
MaxRaw == 22300
\* output() calls the caller makes in a row
MaxSnapshots == 2
\* longest run of steps without a channel call that a network engine makes at once
MaxLocal == 3
\* most steps of one whole run() of an engine of part 1
MaxRun == 8

----------------------------------------------------------------------------
\* Option and Result values.

None == [some |-> FALSE]
Some(x) == [some |-> TRUE, v |-> x]
unwrap_or(opt, d) == IF opt.some THEN opt.v ELSE d

Ok(x) == [ok |-> TRUE, v |-> x]
Err(e) == [ok |-> FALSE, err |-> e]
\* the thread panicked: no Result is returned
Panic == [ok |-> FALSE, err |-> "panic"]

Unit == "()"

\* HashMap::get and HashMap::insert (map_get_zero: a get that reads an
\* unwritten cell as 0)
map_get_zero(memory, k) == IF k \in DOMAIN memory THEN Some(memory[k]) ELSE Some(0)
\* map_insert that loses the entry of address 0 when it adds a new address
map_insert_evicting(memory, k, v) ==
    [a \in (IF k \in DOMAIN memory THEN DOMAIN memory ELSE (DOMAIN memory) \ {0}) \cup {k}
        |-> IF a = k THEN v ELSE memory[a]]
map_get(memory, k) == IF k \in DOMAIN memory THEN Some(memory[k]) ELSE None
map_insert(memory, k, v) ==
    [a \in (DOMAIN memory) \cup {k} |-> IF a = k THEN v ELSE memory[a]]

\* i.abs()
abs(x) == IF x < 0 THEN -x ELSE x

\* to_string() of a non-negative integer, as its decimal digits, most significant first
RECURSIVE to_string(_)
to_string(n) == IF n < 10 THEN <<n>> ELSE Append(to_string(n \div 10), n % 10)

\* rfold_push with fold in place of rfold: the elements from the first to the last
rfold_push_fold(s) == s

\* rfold(vec![], push): the elements from the last to the first
rfold_push(s) == [i \in 1..Len(s) |-> s[Len(s) + 1 - i]]

----------------------------------------------------------------------------
\* Computer::read_instruction_code

min_opcode == 1
max_opcode == 99
divisor == 100

kind_of_char(x) ==
    IF x = 0 THEN "Position" ELSE IF x = 1 THEN "Immediate" ELSE "Relative"

\* read_instruction_code returning the raw word as the instruction code
read_instruction_code_raw(code) ==
    IF code < min_opcode THEN Err("Opcode must be positive")
    ELSE LET abs_code == abs(code) IN
         IF abs_code <= max_opcode THEN Ok(<<code, <<>> >>)
         ELSE LET prefix == to_string(abs_code \div divisor) IN
              IF ~(\A i \in 1..Len(prefix) : prefix[i] \in {0, 1, 2})
              THEN Err("Unrecognised opcode format")
              ELSE LET chars == rfold_push(to_string(abs(code) \div divisor)) IN
                   Ok(<<code, [i \in 1..Len(chars) |-> kind_of_char(chars[i])]>>)

\* read_instruction_code without the check of the prefix digits
read_instruction_code_unchecked(code) ==
    IF code < min_opcode THEN Err("Opcode must be positive")
    ELSE LET abs_code == abs(code) IN
         IF abs_code <= max_opcode THEN Ok(<<code, <<>> >>)
         ELSE LET chars == rfold_push(to_string(abs(code) \div divisor)) IN
              Ok(<<code % divisor, [i \in 1..Len(chars) |-> kind_of_char(chars[i])]>>)

read_instruction_code(code) ==
    IF code < min_opcode THEN Err("Opcode must be positive")
    ELSE LET abs_code == abs(code) IN
         IF abs_code <= max_opcode THEN Ok(<<code, <<>> >>)
         ELSE The({
              IF ~(\A i \in 1..Len(prefix) : prefix[i] \in {0, 1, 2})
              THEN Err("Unrecognised opcode format")
              ELSE The({Ok(<<code % divisor,
                        [i \in 1..Len(chars) |-> kind_of_char(chars[i])]>>)
                       : chars \in {rfold_push(to_string(abs(code) \div divisor))}})
              : prefix \in {to_string(abs_code \div divisor)}})

----------------------------------------------------------------------------
\* Argument

\* Vec::get(i) on the argument kinds (i counted from 0)
vec_get(v, i) == IF i + 1 <= Len(v) THEN Some(v[i + 1]) ELSE None

\* Argument_new that does not keep the relative base of the engine
Argument_new_no_base(value, kind, relative_base) ==
    [value |-> value, kind |-> unwrap_or(kind, "Position"), relative_base |-> 0]

Argument_new(value, kind, relative_base) ==
    [value |-> value, kind |-> unwrap_or(kind, "Position"), relative_base |-> relative_base]

\* Argument_get with the Relative arm forgetting the relative base
Argument_get_no_base(self, memory) ==
    CASE self.kind = "Immediate" -> Some(self.value)
      [] self.kind = "Position"  -> map_get(memory, self.value)
      [] self.kind = "Relative"  -> map_get(memory, self.value)

Argument_get(self, memory) ==
    CASE self.kind = "Immediate" -> Some(self.value)
      [] self.kind = "Position"  -> map_get(memory, self.value)
      [] self.kind = "Relative"  -> map_get(memory, self.value + self.relative_base)

\* Argument_set with the Immediate arm writing like the Position arm
Argument_set_immediate(self, memory, new_value) ==
    CASE self.kind = "Immediate" -> Ok(map_insert(memory, self.value, new_value))
      [] self.kind = "Position"  -> Ok(map_insert(memory, self.value, new_value))
      [] self.kind = "Relative"  ->
            Ok(map_insert(memory, self.value + self.relative_base, new_value))

\* Ok carries the memory after the insert
Argument_set(self, memory, new_value) ==
    CASE self.kind = "Immediate" -> Err("Can't populate Immediate argument.")
      [] self.kind = "Position"  -> Ok(map_insert(memory, self.value, new_value))
      [] self.kind = "Relative"  ->
            Ok(map_insert(memory, self.value + self.relative_base, new_value))

----------------------------------------------------------------------------
\* Instruction

\* opcode -> variant and number of operand cells read by Instruction::new
Variants ==
    [c \in {1, 2, 3, 4, 5, 6, 7, 8, 9, 99} |->
        CASE c = 1  -> [name |-> "Add", arity |-> 3]
          [] c = 2  -> [name |-> "Multiply", arity |-> 3]
          [] c = 3  -> [name |-> "Input", arity |-> 1]
          [] c = 4  -> [name |-> "Output", arity |-> 1]
          [] c = 5  -> [name |-> "JumpIfTrue", arity |-> 2]
          [] c = 6  -> [name |-> "JumpIfFalse", arity |-> 2]
          [] c = 7  -> [name |-> "LessThan", arity |-> 3]
          [] c = 8  -> [name |-> "Equals", arity |-> 3]
          [] c = 9  -> [name |-> "AdjustRelativeBase", arity |-> 1]
          [] c = 99 -> [name |-> "Stop", arity |-> 0]]

\* the closure |x| *(memory.get(&x).unwrap()) succeeds on every operand cell
address_ok(memory, base_location, n) ==
    \A i \in 1..n : (base_location + i) \in DOMAIN memory

\* Instruction_new with a catch-all arm that builds Stop
Instruction_new_catch_all(code, base_location, argument_types, memory, relative_base) ==
    IF code \notin DOMAIN Variants THEN Ok([name |-> "Stop", args |-> <<>>])
    ELSE LET v == Variants[code] IN
         IF ~address_ok(memory, base_location, v.arity) THEN Panic
         ELSE Ok([name |-> v.name,
                  args |-> [i \in 1..v.arity |->
                               Argument_new(memory[base_location + i],
                                            vec_get(argument_types, i - 1),
                                            relative_base)]])

Instruction_new(code, base_location, argument_types, memory, relative_base) ==
    IF code \notin DOMAIN Variants THEN Err("Unsupported instruction")
    ELSE LET v == Variants[code] IN
         IF ~address_ok(memory, base_location, v.arity) THEN Panic
         ELSE Ok([name |-> v.name,
                  args |-> [i \in 1..v.arity |->
                               Argument_new(memory[base_location + i],
                                            vec_get(argument_types, i - 1),
                                            relative_base)]])

\* Instruction_length with the length 4 for every instruction but Stop
Instruction_length_all_four(self) ==
    CASE self.name = "Stop" -> 0
      [] OTHER -> 4

Instruction_length(self) ==
    CASE self.name \in {"Add", "Multiply", "LessThan", "Equals"} -> 4
      [] self.name \in {"Input", "Output", "AdjustRelativeBase"} -> 2
      [] self.name \in {"JumpIfTrue", "JumpIfFalse"} -> 3
      [] self.name = "Stop" -> 0

Step(distance) == [tag |-> "Step", v |-> distance]
Jump(target) == [tag |-> "Jump", v |-> target]
Stop == [tag |-> "Stop"]

\* Every instruction returns [c |-> the engine after it, res |-> Result<CallResult>].
\* c holds what the instruction mutated even when res is an error.

\* output.set(memory, result).and(Ok(CallResult::Step(self.length())))
set_and_step(self, c, output, result) ==
    The({IF s.ok THEN [c |-> [c EXCEPT !.memory = s.v], res |-> Ok(Step(Instruction_length(self)))]
         ELSE [c |-> c, res |-> s]
         : s \in {Argument_set(output, c.memory, result)}})

Instruction_add(self, c) ==
    LET result == unwrap_or(Argument_get(self.args[1], c.memory), 0)
                  + unwrap_or(Argument_get(self.args[2], c.memory), 0)
    IN set_and_step(self, c, self.args[3], result)

\* Instruction_multiply with the body of add
Instruction_multiply_sum(self, c) ==
    LET result == unwrap_or(Argument_get(self.args[1], c.memory), 0)
                  + unwrap_or(Argument_get(self.args[2], c.memory), 0)
    IN set_and_step(self, c, self.args[3], result)

Instruction_multiply(self, c) ==
    LET result == unwrap_or(Argument_get(self.args[1], c.memory), 0)
                  * unwrap_or(Argument_get(self.args[2], c.memory), 0)
    IN set_and_step(self, c, self.args[3], result)

\* Instruction_input with pop_back in place of pop_front
Instruction_input_pop_back(self, c) ==
    IF c.input.kind = "Queue"
    THEN LET q == c.input.q IN
         IF q = <<>> THEN [c |-> c, res |-> Err("Failed to find an input value.")]
         ELSE LET popped == [c EXCEPT !.input.q = SubSeq(q, 1, Len(q) - 1)]
                  s == Argument_set(self.args[1], c.memory, q[Len(q)])
              IN IF s.ok
                 THEN [c |-> [popped EXCEPT !.memory = s.v],
                       res |-> Ok(Step(Instruction_length(self)))]
                 ELSE [c |-> popped, res |-> s]
    ELSE [c |-> c, res |-> Err("Failed to receive an input value.")]

\* Queue arm: q.pop_front() happens before destination.set.
\* Channel arm: c.input.recv is what rx.recv() returns to this call.
Instruction_input(self, c) ==
    IF c.input.kind = "Queue"
    THEN LET q == c.input.q IN
         IF q = <<>> THEN [c |-> c, res |-> Err("Failed to find an input value.")]
         ELSE LET popped == [c EXCEPT !.input.q = Tail(q)]
                  s == Argument_set(self.args[1], c.memory, Head(q))
              IN IF s.ok
                 THEN [c |-> [popped EXCEPT !.memory = s.v],
                       res |-> Ok(Step(Instruction_length(self)))]
                 ELSE [c |-> popped, res |-> s]
    ELSE IF c.input.recv.ok
         THEN LET s == Argument_set(self.args[1], c.memory, c.input.recv.v) IN
              IF s.ok
              THEN [c |-> [c EXCEPT !.memory = s.v],
                    res |-> Ok(Step(Instruction_length(self)))]
              ELSE [c |-> c, res |-> s]
         ELSE [c |-> c, res |-> Err("Failed to receive an input value.")]

\* Instruction_output with push_front in place of push_back
Instruction_output_push_front(self, c) ==
    LET value == unwrap_or(Argument_get(self.args[1], c.memory), 0) IN
    [c |-> IF c.output.kind = "Queue"
           THEN [c EXCEPT !.output.q = <<value>> \o c.output.q]
           ELSE IF ~c.output.send.ok
                THEN [c EXCEPT !.alt_output = Append(c.alt_output, value)]
                ELSE c,
     res |-> Ok(Step(Instruction_length(self)))]

\* Instruction_output that returns the send error instead of buffering the value
Instruction_output_send_error(self, c) ==
    LET value == unwrap_or(Argument_get(self.args[1], c.memory), 0) IN
    [c |-> IF c.output.kind = "Queue"
           THEN [c EXCEPT !.output.q = Append(c.output.q, value)]
           ELSE c,
     res |-> IF c.output.kind = "Channel" /\ ~c.output.send.ok
             THEN Err("Failed to send an output value.")
             ELSE Ok(Step(Instruction_length(self)))]

\* Queue arm: q.push_back(value).
\* Channel arm: c.output.send is what tx.send(value) returns to this call;
\* an Err (no receiver remains) puts the value into alt_output.
\* Instruction_output that buffers the value twice when the send fails
Instruction_output_buffers_twice(self, c) ==
    LET value == unwrap_or(Argument_get(self.args[1], c.memory), 0) IN
    [c |-> IF c.output.kind = "Queue"
           THEN [c EXCEPT !.output.q = Append(c.output.q, value)]
           ELSE IF ~c.output.send.ok
                THEN [c EXCEPT !.alt_output = Append(Append(c.alt_output, value), value)]
                ELSE c,
     res |-> Ok(Step(Instruction_length(self)))]

\* Instruction_output that keeps every value in the overflow buffer, sent or not
Instruction_output_always_buffers(self, c) ==
    LET value == unwrap_or(Argument_get(self.args[1], c.memory), 0) IN
    [c |-> IF c.output.kind = "Queue"
           THEN [c EXCEPT !.output.q = Append(c.output.q, value)]
           ELSE [c EXCEPT !.alt_output = Append(c.alt_output, value)],
     res |-> Ok(Step(Instruction_length(self)))]

\* Instruction_output that puts a value whose send failed at the front of the buffer
Instruction_output_overflow_front(self, c) ==
    LET value == unwrap_or(Argument_get(self.args[1], c.memory), 0) IN
    [c |-> IF c.output.kind = "Queue"
           THEN [c EXCEPT !.output.q = Append(c.output.q, value)]
           ELSE IF ~c.output.send.ok
                THEN [c EXCEPT !.alt_output = <<value>> \o c.alt_output]
                ELSE c,
     res |-> Ok(Step(Instruction_length(self)))]

Instruction_output(self, c) ==
    LET value == unwrap_or(Argument_get(self.args[1], c.memory), 0) IN
    [c |-> IF c.output.kind = "Queue"
           THEN [c EXCEPT !.output.q = Append(c.output.q, value)]
           ELSE IF ~c.output.send.ok
                THEN [c EXCEPT !.alt_output = Append(c.alt_output, value)]
                ELSE c,
     res |-> Ok(Step(Instruction_length(self)))]

Instruction_jump_if_true(self, c) ==
    LET test_val == unwrap_or(Argument_get(self.args[1], c.memory), 0) IN
    [c |-> c,
     res |-> IF test_val = 0 THEN Ok(Step(Instruction_length(self)))
             ELSE Ok(Jump(unwrap_or(Argument_get(self.args[2], c.memory), 0)))]

\* Instruction_jump_if_false jumping to the operand's raw value, whatever its mode
Instruction_jump_if_false_raw(self, c) ==
    LET test_val == unwrap_or(Argument_get(self.args[1], c.memory), 0) IN
    [c |-> c,
     res |-> IF test_val = 0 THEN Ok(Jump(self.args[2].value))
             ELSE Ok(Step(Instruction_length(self)))]

Instruction_jump_if_false(self, c) ==
    LET test_val == unwrap_or(Argument_get(self.args[1], c.memory), 0) IN
    [c |-> c,
     res |-> IF test_val = 0
             THEN Ok(Jump(unwrap_or(Argument_get(self.args[2], c.memory), 0)))
             ELSE Ok(Step(Instruction_length(self)))]

\* Instruction_less_than comparing with <=
Instruction_less_than_or_equal(self, c) ==
    LET value1 == unwrap_or(Argument_get(self.args[1], c.memory), 0)
        value2 == unwrap_or(Argument_get(self.args[2], c.memory), 0)
    IN set_and_step(self, c, self.args[3], IF value1 <= value2 THEN 1 ELSE 0)

Instruction_less_than(self, c) ==
    LET value1 == unwrap_or(Argument_get(self.args[1], c.memory), 0)
        value2 == unwrap_or(Argument_get(self.args[2], c.memory), 0)
    IN set_and_step(self, c, self.args[3], IF value1 < value2 THEN 1 ELSE 0)

Instruction_equals(self, c) ==
    LET value1 == unwrap_or(Argument_get(self.args[1], c.memory), 0)
        value2 == unwrap_or(Argument_get(self.args[2], c.memory), 0)
    IN set_and_step(self, c, self.args[3], IF value1 = value2 THEN 1 ELSE 0)

\* Instruction_adjust_relative_base assigning the operand instead of adding it
Instruction_adjust_relative_base_assign(self, c) ==
    [c |-> [c EXCEPT !.relative_base = unwrap_or(Argument_get(self.args[1], c.memory), 0)],
     res |-> Ok(Step(Instruction_length(self)))]

Instruction_adjust_relative_base(self, c) ==
    [c |-> [c EXCEPT !.relative_base =
                        c.relative_base + unwrap_or(Argument_get(self.args[1], c.memory), 0)],
     res |-> Ok(Step(Instruction_length(self)))]

Instruction_call(self, c) ==
    CASE self.name = "Add" -> Instruction_add(self, c)
      [] self.name = "Multiply" -> Instruction_multiply(self, c)
      [] self.name = "Input" -> Instruction_input(self, c)
      [] self.name = "Output" -> Instruction_output(self, c)
      [] self.name = "JumpIfTrue" -> Instruction_jump_if_true(self, c)
      [] self.name = "JumpIfFalse" -> Instruction_jump_if_false(self, c)
      [] self.name = "LessThan" -> Instruction_less_than(self, c)
      [] self.name = "Equals" -> Instruction_equals(self, c)
      [] self.name = "AdjustRelativeBase" -> Instruction_adjust_relative_base(self, c)
      [] self.name = "Stop" -> [c |-> c, res |-> Ok(Stop)]

----------------------------------------------------------------------------
\* Computer

Queue(q) == [kind |-> "Queue", q |-> q]
\* a Receiver whose next recv() returns r
ChannelIn(r) == [kind |-> "Channel", recv |-> r]
\* a SyncSender whose next send() returns r
ChannelOut(r) == [kind |-> "Channel", send |-> r]
\* the error of recv() and send() on a disconnected channel
Disconnected == Err("disconnected")

\* Computer_new with the addresses counted from 1
Computer_new_from_one(memory, input, output) ==
    [memory |-> [a \in 1..Len(memory) |-> memory[a]],
     loc |-> 0,
     running |-> TRUE,
     input |-> unwrap_or(input, Queue(<<>>)),
     output |-> unwrap_or(output, Queue(<<>>)),
     alt_output |-> <<>>,
     relative_base |-> 0]

\* memory cell i-1 holds the i-th element of the supplied Vec
Computer_new(memory, input, output) ==
    [memory |-> [a \in 0..(Len(memory) - 1) |-> memory[a + 1]],
     loc |-> 0,
     running |-> TRUE,
     input |-> unwrap_or(input, Queue(<<>>)),
     output |-> unwrap_or(output, Queue(<<>>)),
     alt_output |-> <<>>,
     relative_base |-> 0]

\* apply_call_result with a Stop arm that also moves the pointer past the opcode
apply_call_result_stop_advances(c, cr) ==
    CASE cr.tag = "Step" -> [c EXCEPT !.loc = c.loc + cr.v]
      [] cr.tag = "Jump" -> [c EXCEPT !.loc = cr.v]
      [] cr.tag = "Stop" -> [c EXCEPT !.running = FALSE, !.loc = c.loc + 1]

\* apply_call_result with a jump that also clears the running flag
apply_call_result_jump_halts(c, cr) ==
    CASE cr.tag = "Step" -> [c EXCEPT !.loc = c.loc + cr.v]
      [] cr.tag = "Jump" -> [c EXCEPT !.loc = cr.v, !.running = FALSE]
      [] cr.tag = "Stop" -> [c EXCEPT !.running = FALSE]

\* the closure applied to the CallResult
apply_call_result(c, cr) ==
    CASE cr.tag = "Step" -> [c EXCEPT !.loc = c.loc + cr.v]
      [] cr.tag = "Jump" -> [c EXCEPT !.loc = cr.v]
      [] cr.tag = "Stop" -> [c EXCEPT !.running = FALSE]

\* step(): [c |-> the engine after the call, result |-> its Result (or Panic),
\*          decoded, instruction |-> the two intermediate values]
Computer_step(c) ==
    LET current_mem_value == map_get(c.memory, c.loc) IN
    IF ~current_mem_value.some
    THEN [c |-> c, result |-> Err("Current location is out of range."),
          decoded |-> None, instruction |-> None]
    ELSE The({
         IF ~d.ok
         THEN [c |-> c, result |-> d,
               decoded |-> Some([raw |-> current_mem_value.v, res |-> d]), instruction |-> None]
         ELSE The({
              IF ~i.ok
              THEN [c |-> c, result |-> i,
                    decoded |-> Some([raw |-> current_mem_value.v, res |-> d]),
                    instruction |-> None]
              ELSE The({
                   [c |-> IF r.res.ok THEN apply_call_result(r.c, r.res.v) ELSE r.c,
                    result |-> IF r.res.ok THEN Ok(Unit) ELSE r.res,
                    decoded |-> Some([raw |-> current_mem_value.v, res |-> d]),
                    instruction |-> Some(i.v)]
                   : r \in {Instruction_call(i.v, c)}})
              : i \in {Instruction_new(d.v[1], c.loc, d.v[2], c.memory, c.relative_base)}})
         : d \in {read_instruction_code(current_mem_value.v)}})

\* Computer_result reading the cell at the pointer instead of cell 0
Computer_result_at_loc(c) ==
    LET a == map_get(c.memory, c.loc) IN
    IF a.some THEN Ok(a.v) ELSE Err("Empty memory!")

Computer_result(c) ==
    LET a == map_get(c.memory, 0) IN
    IF a.some THEN Ok(a.v) ELSE Err("Empty memory!")

\* Computer_output taking the queue out of the engine
Computer_output_drain(c) ==
    [c |-> IF c.output.kind = "Queue" THEN [c EXCEPT !.output.q = <<>>] ELSE c,
     v |-> IF c.output.kind = "Queue" THEN c.output.q ELSE c.alt_output]

\* output(&self): [c |-> the engine after the call, v |-> the VecDeque returned]
Computer_output(c) ==
    [c |-> c,
     v |-> IF c.output.kind = "Queue" THEN c.output.q ELSE c.alt_output]

----------------------------------------------------------------------------
\* The programs and input queues the engine is constructed with.

\* raw instruction words of the generated programs
OpWords ==
    {-1, 0, 1, 2, 3, 4, 5, 6, 7, 8, 9, 99, 10, 98, 100, 200, 199,
     101, 1001, 1101, 2201, 10001, 11101, 20001, 21201, 102, 1002, 11002,
     103, 203, 104, 204, 105, 1005, 1105, 106, 1106, 2106,
     107, 1107, 10007, 11107, 108, 1108, 11108, 20008, 109, 209,
     301, 1301, 30001, 901}

\* operand cells of the generated programs
Vals == {-1, 0, 1, 5}

SeqsOfLen(S, n) == [1..n -> S]

GeneratedPrograms ==
    {<<>>} \cup
    UNION {{<<w>> \o t : w \in OpWords, t \in SeqsOfLen(Vals, n)} : n \in 0..(MaxLen - 1)}

\* the programs of the tests of intcode.rs and of the specification's examples
ExamplePrograms ==
    {<<1, 0, 0, 0, 99>>, <<2, 3, 0, 3, 99>>, <<2, 4, 4, 5, 99, 0>>,
     <<3, 2, 0>>, <<4, 2, 42>>, <<1105, 1, 20>>, <<5, 0, 2>>, <<1105, 0, 20>>,
     <<5, 3, 20, 0>>, <<1106, 0, 20>>, <<6, 3, 3, 0>>, <<1106, 1, 20>>,
     <<1107, -1, 0, 0>>, <<1107, 10, 10, 0>>, <<1108, 42, 42, 0>>, <<1108, 42, 43, 0>>,
     <<109, -7>>, <<1, 1, 1, 4, 99, 5, 6, 0, 99>>, <<1002, 4, 3, 4, 33>>,
     <<1, 0, 0>>, <<3>>, <<103, 0>>,
     <<3, 5, 3, 6, 99>>, <<3, 0, 4, 0, 99>>, <<3, 5, 3, 5, 4, 5, 99>>,
     <<104, 43, 4, 0, 99>>, <<109, 3, 109, -7, 99>>, <<99>>}

\* programs that move the relative base and then use it
RelativeBases == {-2, 3}
RelativeWords == {204, 203, 209, 2201, 21201, 20101, 2105, 1206, 22207, 20008}

RelativePrograms ==
    UNION {{<<109, b, w>> \o t : b \in RelativeBases, w \in RelativeWords,
                                 t \in SeqsOfLen(Vals, n)} : n \in 0..(MaxLen - 1)}

\* one program per raw instruction word, with its operand cells populated
DecodePrograms == {<<w, 0, 0, 0>> : w \in (-MaxRaw)..MaxRaw}

\* the caller-supplied queues: the prefixes of 41, 42, 43, ...
InputQueues == {[i \in 1..n |-> 40 + i] : n \in 0..MaxInput}

\* programs run with a channel-backed output whose receiver has been dropped
OutputWords == {4, 104, 204}
ChannelPrograms ==
    {<<4, 2, 43>>, <<104, 43, 4, 0, 99>>, <<104, 7, 1105, 1, 0>>} \cup
    UNION {{<<w>> \o t : w \in OutputWords, t \in SeqsOfLen(Vals, n)} : n \in 0..(MaxLen - 1)}

\* a queue-backed engine with a caller-supplied input queue
InitQueue ==
    \E p \in GeneratedPrograms \cup RelativePrograms \cup ExamplePrograms, q \in InputQueues :
        /\ computer = Computer_new(p, Some(Queue(q)), None)
        /\ program = p
        /\ supplied = q

\* an engine with the default input and output
InitDefault ==
    \E p \in DecodePrograms :
        /\ computer = Computer_new(p, None, None)
        /\ program = p
        /\ supplied = <<>>

\* an engine whose output is a channel with no receiver left
InitChannel ==
    \E p \in ChannelPrograms :
        /\ computer = Computer_new(p, None, Some(ChannelOut(Disconnected)))
        /\ program = p
        /\ supplied = <<>>

\* no network has been built
NoNetwork ==
    /\ amps = <<>>
    /\ seeds = <<>>
    /\ threads = <<>>
    /\ received = <<>>
    /\ sent = <<>>
    /\ reported = None
    /\ process = "up"

\* day7 part 1 and the day2 engine are not used
NoSide == chain = None /\ day2 = None

\* everything but the engine, right after construction
InitCaller ==
    /\ NoNetwork
    /\ NoSide
    /\ inputs_done = 0
    /\ emitted = <<>>
    /\ snapshots = <<>>
    /\ pc = "idle"
    /\ calls = 0
    /\ steps = 0
    /\ decoded = None
    /\ instruction = None
    /\ step_result = None
    /\ run_result = None
    /\ before = None

Init == (InitQueue \/ InitDefault \/ InitChannel) /\ InitCaller

----------------------------------------------------------------------------
\* The instruction at the pointer, read off the raw word and the cells directly.

RECURSIVE Pow10(_)
Pow10(n) == IF n = 0 THEN 1 ELSE 10 * Pow10(n - 1)

\* the decimal digit of raw at 10^i
Digit(raw, i) == (raw \div Pow10(i)) % 10

\* raw is positive and every digit above the two low ones is 0, 1 or 2
WellFormed(raw) ==
    raw >= 1 /\ \A i \in 2..9 : Pow10(i) <= raw => Digit(raw, i) \in {0, 1, 2}

\* a step() call has been made in this transition
Fired == steps' = steps + 1

AtCell == computer.loc \in DOMAIN computer.memory
Raw == computer.memory[computer.loc]
Opcode == Raw % 100

Arity(op) ==
    CASE op \in {1, 2, 7, 8} -> 3
      [] op \in {5, 6} -> 2
      [] op \in {3, 4, 9} -> 1
      [] OTHER -> 0

\* every operand cell of the instruction at the pointer has been written
Populated == \A k \in 1..Arity(Opcode) : (computer.loc + k) \in DOMAIN computer.memory

Operand(k) == computer.memory[computer.loc + k]
Mode(k) == Digit(Raw, k + 1)

\* a cell of the sparse memory
Cell(memory, a) == IF a \in DOMAIN memory THEN memory[a] ELSE 0

\* the address operand k denotes (modes 0 and 2) and the value it resolves to
Addr(k) == IF Mode(k) = 2 THEN Operand(k) + computer.relative_base ELSE Operand(k)
Src(k) == IF Mode(k) = 1 THEN Operand(k) ELSE Cell(computer.memory, Addr(k))

\* the last step() returned an error value e
Returned(r, e) == r = Some(Err(e))
StepOk(r) == r = Some(Ok(Unit))

\* run() has returned at least once: after Stop, or with the error of a step
Terminal == run_result.some

----------------------------------------------------------------------------
\* What the instruction at the pointer is to do, per opcode.

Opcodes == {1, 2, 3, 4, 5, 6, 7, 8, 9, 99}
Writing == {1, 2, 3, 7, 8}

\* the operand an instruction writes through
DstOperand == IF Opcode = 3 THEN 1 ELSE 3

\* the word at the pointer decodes to a supported instruction whose operand
\* cells are all populated
Decodes == AtCell /\ WellFormed(Raw) /\ Opcode \in Opcodes /\ Populated

\* ... and it can run to its end: the destination is not Immediate, and an
\* Input finds a value in the queue
Executable ==
    /\ Decodes
    /\ Opcode \in Writing => Mode(DstOperand) # 1
    /\ Opcode = 3 => computer.input.q # <<>>

\* the value a writing instruction stores
Written ==
    CASE Opcode = 1 -> Src(1) + Src(2)
      [] Opcode = 2 -> Src(1) * Src(2)
      [] Opcode = 3 -> Head(computer.input.q)
      [] Opcode = 7 -> IF Src(1) < Src(2) THEN 1 ELSE 0
      [] Opcode = 8 -> IF Src(1) = Src(2) THEN 1 ELSE 0

\* what output() is to return: the queue, or the overflow buffer of a channel
Sink(c) == IF c.output.kind = "Queue" THEN c.output.q ELSE c.alt_output

\* memory with cell a set to v and every other cell as it was
Store(memory, a, v) ==
    [x \in (DOMAIN memory) \cup {a} |-> IF x = a THEN v ELSE memory[x]]

\* the memory Computer::new builds from a program
Mem(p) == [a \in 0..(Len(p) - 1) |-> p[a + 1]]

ImmediateWrite == "Can't populate Immediate argument."
NoInput == "Failed to find an input value."

----------------------------------------------------------------------------
\* The caller and run().

\* the caller calls run()
CallRun ==
    /\ pc = "idle"
    /\ calls < MaxCalls
    /\ pc' = "run"
    /\ calls' = calls + 1
    /\ snapshots' = <<>>
    /\ UNCHANGED <<computer, steps, decoded, instruction, step_result, run_result,
                   program, supplied, inputs_done, emitted, before>>
    /\ UNCHANGED net_vars
    /\ UNCHANGED side_vars

\* RunStep with an input queue that may hand out its last value first
RunStep_unordered ==
    /\ pc = "run"
    /\ computer.running
    /\ steps < MaxSteps
    /\ \E from \in {computer} \cup
                    (IF computer.input.kind = "Queue" /\ computer.input.q # <<>>
                     THEN {[computer EXCEPT !.input.q =
                               <<computer.input.q[Len(computer.input.q)]>>
                               \o SubSeq(computer.input.q, 1, Len(computer.input.q) - 1)]}
                     ELSE {}) :
         LET s == Computer_step(from) IN
         /\ computer' = s.c
         /\ before' = Some(computer)
         /\ decoded' = s.decoded
         /\ instruction' = s.instruction
         /\ step_result' = Some(s.result)
         /\ steps' = steps + 1
         /\ IF s.result.ok
            THEN pc' = "run" /\ run_result' = run_result
            ELSE IF s.result = Panic
                 THEN pc' = "panicked" /\ run_result' = run_result
                 ELSE pc' = "idle" /\ run_result' = Some(s.result)
         /\ inputs_done' = IF s.result.ok /\ Opcode = 3 THEN inputs_done + 1 ELSE inputs_done
         /\ emitted' = IF s.result.ok /\ Opcode = 4 THEN Append(emitted, Src(1)) ELSE emitted
    /\ UNCHANGED <<calls, program, supplied, snapshots>>
    /\ UNCHANGED net_vars
    /\ UNCHANGED side_vars

\* one iteration of run()'s loop: while self.running { self.step()?; }
RunStep ==
    /\ pc = "run"
    /\ computer.running
    /\ steps < MaxSteps
    /\ LET s == Computer_step(computer) IN
         /\ computer' = s.c
         /\ before' = Some(computer)
         /\ decoded' = s.decoded
         /\ instruction' = s.instruction
         /\ step_result' = Some(s.result)
         /\ steps' = steps + 1
         /\ IF s.result.ok
            THEN pc' = "run" /\ run_result' = run_result
            ELSE IF s.result = Panic
                 THEN pc' = "panicked" /\ run_result' = run_result
                 ELSE pc' = "idle" /\ run_result' = Some(s.result)
         /\ inputs_done' = IF s.result.ok /\ Opcode = 3 THEN inputs_done + 1 ELSE inputs_done
         /\ emitted' = IF s.result.ok /\ Opcode = 4 THEN Append(emitted, Src(1)) ELSE emitted
    /\ UNCHANGED <<calls, program, supplied, snapshots>>
    /\ UNCHANGED net_vars
    /\ UNCHANGED side_vars

\* the loop ends with running = false: run() returns self.result()
RunReturn ==
    /\ pc = "run"
    /\ ~computer.running
    /\ pc' = "idle"
    /\ run_result' = Some(Computer_result(computer))
    /\ UNCHANGED <<computer, calls, steps, decoded, instruction, step_result,
                   program, supplied, inputs_done, emitted, snapshots, before>>
    /\ UNCHANGED net_vars
    /\ UNCHANGED side_vars

\* the caller calls output()
CallOutput ==
    /\ pc = "idle"
    /\ Len(snapshots) < MaxSnapshots
    /\ LET o == Computer_output(computer) IN
         /\ computer' = o.c
         /\ snapshots' = Append(snapshots, o.v)
    /\ UNCHANGED <<pc, calls, steps, decoded, instruction, step_result, run_result,
                   program, supplied, inputs_done, emitted, before>>
    /\ UNCHANGED net_vars
    /\ UNCHANGED side_vars

Next == CallRun \/ RunStep \/ RunReturn

Spec == Init /\ [][Next]_vars

\* the same engines with a caller that also reads output() between its calls of run()
InitOutput == (InitQueue \/ InitChannel) /\ InitCaller
NextOutput == CallRun \/ RunStep \/ RunReturn \/ CallOutput
SpecOutput == InitOutput /\ [][NextOutput]_vars

----------------------------------------------------------------------------
\* An engine whose output channel still has its receiver, and the moment the
\* receiver is dropped: every send before it succeeds, every send after it fails.

InitChannelLive ==
    \E p \in ChannelPrograms :
        /\ computer = Computer_new(p, None, Some(ChannelOut(Ok(Unit))))
        /\ program = p
        /\ supplied = <<>>

\* the other end of the output channel goes away
ReceiverDropped ==
    /\ computer.output = ChannelOut(Ok(Unit))
    /\ pc \in {"idle", "run"}
    /\ computer' = [computer EXCEPT !.output = ChannelOut(Disconnected)]
    /\ UNCHANGED <<pc, calls, steps, decoded, instruction, step_result, run_result,
                   program, supplied, inputs_done, emitted, snapshots, before>>
    /\ UNCHANGED net_vars
    /\ UNCHANGED side_vars

InitChannels == (InitQueue \/ InitChannel \/ InitChannelLive) /\ InitCaller
NextChannels == CallRun \/ RunStep \/ RunReturn \/ CallOutput \/ ReceiverDropped
SpecChannels == InitChannels /\ [][NextChannels]_vars

----------------------------------------------------------------------------
\* The feedback network of day7.rs, part 2, for one permutation of the phase
\* settings.  Engine i sends to engine Succ(i) through a sync_channel(0);
\* the spare transmitter of each channel belongs to a detached seeding
\* thread.  Engines 1 .. 4 run on spawned threads, engine 5 (amp_e) on the
\* main thread.  A thread that has been spawned and one that has not started
\* yet look the same to every other thread, so all threads exist from the
\* start: thread::sleep orders nothing.

\* permutation[0] .. permutation[4]
Phases == <<9, 8, 7, 6, 5>>

\* amp_a .. amp_e; amp_e runs on the main thread
Amps == 1..Len(Phases)
Main == Len(Phases)
Succ(i) == (i % Len(Phases)) + 1
Pred(i) == ((i + Len(Phases) - 2) % Len(Phases)) + 1

\* the program read into initial_state
Amplifier ==
    <<3, 26, 1001, 26, -4, 26, 3, 27, 1002, 27, 2, 27, 1, 27, 26, 27, 4, 27,
      1001, 28, -1, 28, 1005, 28, 6, 99, 0, 0, 5>>

\* initial_state: the amplifier, a program that stops at once, and one that
\* asks for two values and emits nothing
NetPrograms == {Amplifier, <<99>>, <<3, 0, 3, 0, 99>>}

\* a recv() or send() that has not returned
Blocked == Err("blocked")

\* an engine between two steps: no channel call is in progress
Park(c) == [c EXCEPT !.input = ChannelIn(Blocked), !.output = ChannelOut(Blocked)]

\* make_computer
make_computer(initial_state) ==
    Computer_new(initial_state, Some(ChannelIn(Blocked)), Some(ChannelOut(Blocked)))

\* the channel call the next step() of c makes: rx.recv() in Instruction::input,
\* tx.send() in Instruction::output, none in any other step
Blocking(c) ==
    The({IF ~i.some THEN "none"
         ELSE IF i.v.name = "Input" THEN "recv"
         ELSE IF i.v.name = "Output" THEN "send"
         ELSE "none"
         : i \in {Computer_step(c).instruction}})

\* the value the Output instruction at the pointer of c hands to tx.send()
Offered(c) ==
    LET b == Computer_step([c EXCEPT !.output = ChannelOut(Disconnected)]).c.alt_output
    IN b[Len(b)]

\* the next step() of c when its rx.recv() returns r / its tx.send() returns r
step_recv(c, r) == Computer_step([c EXCEPT !.input = ChannelIn(r)])
step_send(c, r) == Computer_step([c EXCEPT !.output = ChannelOut(r)])

\* engine i is inside run()'s loop and about to make a step
Stepping(i) == process = "up" /\ threads[i] = "run" /\ amps[i].running

\* the seeding thread of engine i still holds its transmitter
Seeding(i) == seeds[i].status = "run"

\* what the step s of engine i is to its thread: run() goes on; or the thread
\* unwinds (the main thread takes the process with it); or run() returns the
\* error and the caller prints it and calls process::exit(1)
AfterStep(i, s) ==
    /\ amps' = [amps EXCEPT ![i] = Park(s.c)]
    /\ threads' = IF s.result = Panic THEN [threads EXCEPT ![i] = "panicked"] ELSE threads
    /\ process' = IF s.result.ok THEN process
                  ELSE IF s.result = Panic THEN (IF i = Main THEN "abort" ELSE process)
                  ELSE "exit"

\* the single engine of the other specifications is not used
NoEngine ==
    /\ computer = Computer_new(<<>>, None, None)
    /\ supplied = <<>>
    /\ inputs_done = 0
    /\ emitted = <<>>
    /\ snapshots = <<>>
    /\ pc = "idle"
    /\ calls = 0
    /\ steps = 0
    /\ decoded = None
    /\ instruction = None
    /\ step_result = None
    /\ run_result = None
    /\ before = None

engine_vars == <<computer, pc, calls, steps, decoded, instruction, step_result,
                 run_result, program, supplied, inputs_done, emitted, snapshots, before>>

\* lines 24-44: channels, seeding threads, engines
InitNet ==
    /\ NoEngine
    /\ NoSide
    /\ \E p \in NetPrograms :
         /\ program = p
         /\ amps = [i \in Amps |-> make_computer(p)]
    /\ seeds = [i \in Amps |->
                  [todo |-> IF i = 1 THEN <<Phases[1], 0>> ELSE <<Phases[i]>>,
                   status |-> "run"]]
    /\ threads = [i \in Amps |-> "run"]
    /\ received = [i \in Amps |-> <<>>]
    /\ sent = [i \in Amps |-> <<>>]
    /\ reported = None
    /\ process = "up"

\* run()'s loop from a step that makes no channel call up to the next channel
\* call, the end of the loop or an error, n steps at most; the record is that
\* of the last step made
RECURSIVE run_local(_, _)
run_local(c, n) ==
    The({IF n <= 1 \/ ~s.result.ok \/ ~s.c.running \/ Blocking(s.c) # "none"
         THEN s
         ELSE run_local(s.c, n - 1)
         : s \in {Computer_step(c)}})

\* steps of an engine that make no channel call: no other thread can tell
\* them apart, so up to MaxLocal of them in a row are taken together
NetLocal ==
    \E i \in Amps :
        /\ Stepping(i)
        /\ Blocking(amps[i]) = "none"
        /\ \E s \in {run_local(amps[i], MaxLocal)} : AfterStep(i, s)
        /\ UNCHANGED <<seeds, received, sent, reported>>
        /\ UNCHANGED engine_vars
        /\ UNCHANGED side_vars

\* sender.send(..) of a seeding thread meets rx.recv() of its engine
NetSeed ==
    \E i \in Amps :
        /\ Stepping(i)
        /\ Blocking(amps[i]) = "recv"
        /\ Seeding(i)
        /\ LET v == Head(seeds[i].todo)
               rest == Tail(seeds[i].todo)
           IN /\ \E s \in {step_recv(amps[i], Ok(v))} : AfterStep(i, s)
              /\ seeds' = [seeds EXCEPT ![i] =
                              [todo |-> rest,
                               status |-> IF rest = <<>> THEN "done" ELSE "run"]]
              /\ received' = [received EXCEPT ![i] = Append(@, [from |-> "seed", v |-> v])]
        /\ UNCHANGED <<sent, reported>>
        /\ UNCHANGED engine_vars
        /\ UNCHANGED side_vars

\* NetPass for engines that share one memory: what the receiver writes shows
\* in the memory of the sender
NetPass_shared_memory ==
    \E i \in Amps :
        LET j == Succ(i) IN
        /\ Stepping(i) /\ Stepping(j)
        /\ Blocking(amps[i]) = "send"
        /\ Blocking(amps[j]) = "recv"
        /\ \E v \in {Offered(amps[i])} :
           \E si \in {step_send(amps[i], Ok(Unit))}, sj \in {step_recv(amps[j], Ok(v))} :
              /\ amps' = [amps EXCEPT ![i] = Park([si.c EXCEPT !.memory = sj.c.memory]),
                                      ![j] = Park(sj.c)]
              /\ process' = IF sj.result.ok THEN process ELSE "exit"
              /\ received' = [received EXCEPT ![j] = Append(@, [from |-> "amp", v |-> v])]
              /\ sent' = [sent EXCEPT ![i] = Append(@, v)]
        /\ UNCHANGED <<seeds, threads, reported>>
        /\ UNCHANGED engine_vars
        /\ UNCHANGED side_vars

\* tx.send(value) of engine i meets rx.recv() of engine Succ(i)
NetPass ==
    \E i \in Amps :
        LET j == Succ(i) IN
        /\ Stepping(i) /\ Stepping(j)
        /\ Blocking(amps[i]) = "send"
        /\ Blocking(amps[j]) = "recv"
        /\ \E v \in {Offered(amps[i])} :
           \E si \in {step_send(amps[i], Ok(Unit))}, sj \in {step_recv(amps[j], Ok(v))} :
              /\ amps' = [amps EXCEPT ![i] = Park(si.c), ![j] = Park(sj.c)]
              /\ process' = IF sj.result.ok THEN process ELSE "exit"
              /\ received' = [received EXCEPT ![j] = Append(@, [from |-> "amp", v |-> v])]
              /\ sent' = [sent EXCEPT ![i] = Append(@, v)]
        /\ UNCHANGED <<seeds, threads, reported>>
        /\ UNCHANGED engine_vars
        /\ UNCHANGED side_vars

\* NetSendFail for a tx.send that waits on although the receiver is gone
NetSendFail_waits ==
    \E i \in Amps :
        /\ Stepping(i)
        /\ Blocking(amps[i]) = "send"
        /\ threads[Succ(i)] # "run"
        /\ FALSE
        /\ UNCHANGED vars

\* tx.send(value) of engine i when the receiver of its channel is gone
NetSendFail ==
    \E i \in Amps :
        /\ Stepping(i)
        /\ Blocking(amps[i]) = "send"
        /\ threads[Succ(i)] # "run"
        /\ \E s \in {step_send(amps[i], Disconnected)} : AfterStep(i, s)
        /\ sent' = [sent EXCEPT ![i] = Append(@, Offered(amps[i]))]
        /\ UNCHANGED <<seeds, received, reported>>
        /\ UNCHANGED engine_vars
        /\ UNCHANGED side_vars

\* NetRecvFail for an rx.recv() that fails as soon as the engine before it is
\* gone, although the seeding thread still holds the spare transmitter
NetRecvFail_ignores_spare ==
    \E i \in Amps :
        /\ Stepping(i)
        /\ Blocking(amps[i]) = "recv"
        /\ threads[Pred(i)] # "run"
        /\ \E s \in {step_recv(amps[i], Disconnected)} : AfterStep(i, s)
        /\ UNCHANGED <<seeds, received, sent, reported>>
        /\ UNCHANGED engine_vars
        /\ UNCHANGED side_vars

\* rx.recv() of engine i when both transmitters of its channel are gone
NetRecvFail ==
    \E i \in Amps :
        /\ Stepping(i)
        /\ Blocking(amps[i]) = "recv"
        /\ ~Seeding(i)
        /\ threads[Pred(i)] # "run"
        /\ \E s \in {step_recv(amps[i], Disconnected)} : AfterStep(i, s)
        /\ UNCHANGED <<seeds, received, sent, reported>>
        /\ UNCHANGED engine_vars
        /\ UNCHANGED side_vars

\* sender.send(..).unwrap() of a seeding thread when the receiver is gone
NetSeedPanic ==
    \E i \in Amps :
        /\ process = "up"
        /\ Seeding(i)
        /\ threads[i] # "run"
        /\ seeds' = [seeds EXCEPT ![i].status = "panicked"]
        /\ UNCHANGED <<amps, threads, received, sent, reported, process>>
        /\ UNCHANGED engine_vars
        /\ UNCHANGED side_vars

\* launch_computer: c.run() returns on a spawned thread; the closure ends and
\* drops the engine with its receiver and its transmitter
NetExit ==
    \E i \in Amps \ {Main} :
        /\ process = "up"
        /\ threads[i] = "run"
        /\ ~amps[i].running
        /\ IF Computer_result(amps[i]).ok
           THEN threads' = [threads EXCEPT ![i] = "done"] /\ process' = process
           ELSE threads' = threads /\ process' = "exit"
        /\ UNCHANGED <<amps, seeds, received, sent, reported>>
        /\ UNCHANGED engine_vars
        /\ UNCHANGED side_vars

\* lines 46-64: amp_e.run() returns on the main thread; the front of
\* amp_e.output() is the result of the permutation, and amp_e is dropped
NetReport ==
    /\ process = "up"
    /\ threads[Main] = "run"
    /\ ~amps[Main].running
    /\ LET o == Computer_output(amps[Main]).v IN
       IF Computer_result(amps[Main]).ok /\ o # <<>>
       THEN /\ reported' = Some(Head(o))
            /\ threads' = [threads EXCEPT ![Main] = "done"]
            /\ process' = process
       ELSE /\ reported' = reported
            /\ threads' = threads
            /\ process' = "exit"
    /\ UNCHANGED <<amps, seeds, received, sent>>
    /\ UNCHANGED engine_vars
    /\ UNCHANGED side_vars

NetNext ==
    \/ NetLocal \/ NetSeed \/ NetPass \/ NetSendFail \/ NetRecvFail
    \/ NetSeedPanic \/ NetExit \/ NetReport

NetSpec == InitNet /\ [][NetNext]_vars

\* the scheduler runs a thread that can run: while some thread of the network
\* is not blocked, one of them makes its next move
NetFairSpec == NetSpec /\ WF_vars(NetNext)

----------------------------------------------------------------------------
\* C1: once run() has returned (after Stop or with an error), a later run()
\* executes nothing: memory, pointer, relative base, input and output stay
\* as they are.
C1_TerminalIsFinal == [][Terminal => computer' = computer]_vars

\* C2: a step() that returns an error leaves memory, pointer, relative base,
\* running flag, input and output exactly as they were.
C2_FailedStepCommitsNothing ==
    [][(Fired /\ step_result'.some /\ ~step_result'.v.ok /\ step_result'.v # Panic)
          => computer' = computer]_vars

\* C3: step() always completes with success or an error value; it never
\* aborts abnormally.
C3_NeverAborts == ~(step_result = Some(Panic))

----------------------------------------------------------------------------
\* C4: sparse memory.  A step whose operands denote never-written addresses
\* does not fail: a never-written address reads as 0 (through Position and
\* Relative operands alike), a write to one creates the cell with the value
\* written, and every cell keeps its value until it is written again.
C4_SparseMemory ==
    [][(Fired /\ Executable) =>
          /\ StepOk(step_result')
          /\ computer'.memory =
                IF Opcode \in Writing
                THEN Store(computer.memory, Addr(DstOperand), Written)
                ELSE computer.memory
          /\ Opcode = 4 => Sink(computer') = Append(Sink(computer), Src(1))
          /\ Opcode = 5 => computer'.loc = IF Src(1) # 0 THEN Src(2) ELSE computer.loc + 3
          /\ Opcode = 6 => computer'.loc = IF Src(1) = 0 THEN Src(2) ELSE computer.loc + 3
          /\ Opcode = 9 => computer'.relative_base = computer.relative_base + Src(1)]_vars

\* an Add has read a never-written address through a Relative operand and
\* written to a negative, never-loaded address
C4_Witness ==
    /\ StepOk(step_result)
    /\ instruction.some
    /\ instruction.v.name = "Add"
    /\ instruction.v.args[1].kind = "Relative"
    /\ instruction.v.args[1].relative_base # 0
    /\ (instruction.v.args[1].value + instruction.v.args[1].relative_base)
          \notin DOMAIN computer.memory
    /\ instruction.v.args[3].kind = "Position"
    /\ instruction.v.args[3].value < 0
    /\ instruction.v.args[3].value \in DOMAIN computer.memory
    /\ computer.memory[instruction.v.args[3].value] # 0

----------------------------------------------------------------------------
\* the instruction at the pointer writes and its destination is Immediate
DestImmediate ==
    /\ AtCell
    /\ WellFormed(Raw)
    /\ Opcode \in Writing
    /\ Mode(DstOperand) = 1

----------------------------------------------------------------------------
\* C6: whenever a raw word decodes, the instruction code is raw mod 100.
C6_OpcodeIsRawMod100 ==
    (decoded.some /\ decoded.v.res.ok) => decoded.v.res.v[1] = decoded.v.raw % 100

\* 2001 has been decoded to instruction code 1
C6_Witness ==
    /\ decoded.some
    /\ decoded.v.raw = 2001
    /\ decoded.v.res.ok
    /\ decoded.v.res.v[1] = 1

----------------------------------------------------------------------------
ModeName(d) == CASE d = 0 -> "Position" [] d = 1 -> "Immediate" [] d = 2 -> "Relative"

\* C7: the modes are the decimal digits of raw / 100, least significant
\* first (0 Position, 1 Immediate, 2 Relative): none when raw < 100, one per
\* digit otherwise; an operand with no digit is built in Position mode.
C7_ModesLeastSignificantFirst ==
    (decoded.some /\ decoded.v.res.ok) =>
        LET raw == decoded.v.raw
            modes == decoded.v.res.v[2]
        IN /\ raw < 100 => modes = <<>>
           /\ raw >= 100 => /\ Pow10(Len(modes) + 1) <= raw
                            /\ raw < Pow10(Len(modes) + 2)
           /\ \A i \in 1..Len(modes) : modes[i] = ModeName(Digit(raw, i + 1))
           /\ instruction.some =>
                 \A k \in DOMAIN instruction.v.args :
                     instruction.v.args[k].kind =
                         IF k <= Len(modes) THEN modes[k] ELSE "Position"

\* 1001 has been decoded to [Position, Immediate] and the Add built from it
\* has its third operand in Position mode
C7_Witness ==
    /\ decoded.some
    /\ decoded.v.raw = 1001
    /\ decoded.v.res.ok
    /\ decoded.v.res.v[2] = <<"Position", "Immediate">>
    /\ instruction.some
    /\ instruction.v.name = "Add"
    /\ instruction.v.args[2].kind = "Immediate"
    /\ instruction.v.args[3].kind = "Position"

----------------------------------------------------------------------------
\* some digit of raw above the two low ones is not 0, 1 or 2
BadModeDigit(raw) == \E i \in 2..9 : Pow10(i) <= raw /\ Digit(raw, i) \notin {0, 1, 2}

\* C8: a raw word < 1 fails to decode (opcode must be positive), and so does
\* a raw word >= 100 with a digit other than 0, 1, 2 above its two low digits
\* (unrecognised opcode); the step is a fatal error: run() returns it, no
\* instruction is built and the engine is unchanged.
C8_DecodeFails ==
    [][(Fired /\ AtCell /\ (Raw < 1 \/ (Raw >= 100 /\ BadModeDigit(Raw)))) =>
          /\ Returned(step_result',
                      IF Raw < 1 THEN "Opcode must be positive"
                      ELSE "Unrecognised opcode format")
          /\ instruction' = None
          /\ computer' = computer
          /\ pc' = "idle"
          /\ run_result' = step_result']_vars

\* 1301 (a mode digit 3) has been rejected as unrecognised
C8_Witness ==
    /\ Returned(step_result, "Unrecognised opcode format")
    /\ decoded.some
    /\ decoded.v.raw = 1301
    /\ instruction = None
    /\ run_result = step_result

----------------------------------------------------------------------------
\* C9: a word that decodes to an opcode outside {1,...,9,99} (opcode 0 of raw
\* 100 or 200 included) makes the step fail with the unsupported-instruction
\* error and leaves the engine unchanged.
C9_UnsupportedInstruction ==
    [][(Fired /\ AtCell /\ WellFormed(Raw) /\ Opcode \notin Opcodes) =>
          /\ Returned(step_result', "Unsupported instruction")
          /\ computer' = computer]_vars

\* raw word 200 (opcode 0) has been rejected as unsupported
C9_Witness ==
    /\ Returned(step_result, "Unsupported instruction")
    /\ decoded.some
    /\ decoded.v.raw = 200
    /\ decoded.v.res.v[1] = 0

----------------------------------------------------------------------------
\* C10: Add (1) and Multiply (2) write a+b (a*b) of the resolved sources to
\* the destination address, change no other cell, leave relative base, input
\* and output alone, keep running = true and advance the pointer by 4.
\* [1,0,0,0,99] becomes [2,0,0,0,99] with pointer 4; [2,3,0,3,99] becomes
\* [2,3,0,6,99].
C10_AddMultiply ==
    [][Fired =>
          /\ (Executable /\ Opcode \in {1, 2}) =>
                /\ StepOk(step_result')
                /\ computer'.memory =
                      Store(computer.memory, Addr(3),
                            IF Opcode = 1 THEN Src(1) + Src(2) ELSE Src(1) * Src(2))
                /\ computer'.loc = computer.loc + 4
                /\ computer'.running
                /\ computer'.relative_base = computer.relative_base
                /\ computer'.input = computer.input
                /\ computer'.output = computer.output
                /\ computer'.alt_output = computer.alt_output
          /\ (computer.loc = 0 /\ computer.memory = Mem(<<1, 0, 0, 0, 99>>)) =>
                computer'.memory = Mem(<<2, 0, 0, 0, 99>>) /\ computer'.loc = 4
          /\ (computer.loc = 0 /\ computer.memory = Mem(<<2, 3, 0, 3, 99>>)) =>
                computer'.memory = Mem(<<2, 3, 0, 6, 99>>)]_vars

\* [2,4,4,5,99,0] has become [2,4,4,5,99,9801] in one step, pointer 4
C10_Witness ==
    /\ steps = 1
    /\ StepOk(step_result)
    /\ instruction.v.name = "Multiply"
    /\ computer.memory = Mem(<<2, 4, 4, 5, 99, 9801>>)
    /\ computer.loc = 4
    /\ computer.running

----------------------------------------------------------------------------
\* C11: with a queue for input, the k-th Input that succeeds writes the k-th
\* value of the queue the caller supplied to the destination address, removes
\* exactly that value from the queue and advances the pointer by 2; an Input
\* that finds the queue empty returns the no-input error and leaves memory and
\* pointer as they were.
C11_QueueInput ==
    [][(Fired /\ Decodes /\ Opcode = 3 /\ computer.input.kind = "Queue") =>
          /\ Executable =>
                /\ StepOk(step_result')
                /\ inputs_done' = inputs_done + 1
                /\ inputs_done' <= Len(supplied)
                /\ computer'.memory =
                      Store(computer.memory, Addr(1), supplied[inputs_done'])
                /\ computer'.input.q = Tail(computer.input.q)
                /\ computer'.input.q =
                      SubSeq(supplied, inputs_done' + 1, Len(supplied))
                /\ computer'.loc = computer.loc + 2
          /\ computer.input.q = <<>> =>
                /\ Returned(step_result', NoInput)
                /\ computer'.memory = computer.memory
                /\ computer'.loc = computer.loc]_vars

\* [3,5,3,6,99] with the queue 41, 42: the second Input has written 42 to
\* address 6, after the first wrote 41 to address 5
C11_Witness ==
    /\ inputs_done = 2
    /\ StepOk(step_result)
    /\ instruction.v.name = "Input"
    /\ supplied = <<41, 42>>
    /\ computer.memory = Mem(<<3, 5, 3, 6, 99, 41, 42>>)
    /\ computer.input.q = <<>>
    /\ computer.loc = 4

----------------------------------------------------------------------------
\* C12: with a queue for output, output() returns the values the Output
\* instructions have emitted so far, in the order of emission, and a second
\* output() without a step between returns the same; an Output step advances
\* the pointer by 2 and leaves memory as it was.
C12_QueueOutput ==
    [][/\ computer'.output.kind = "Queue" =>
            \A i \in DOMAIN snapshots' : snapshots'[i] = emitted'
       /\ (Fired /\ Decodes /\ Opcode = 4 /\ computer.output.kind = "Queue") =>
            /\ StepOk(step_result')
            /\ emitted' = Append(emitted, Src(1))
            /\ computer'.loc = computer.loc + 2
            /\ computer'.memory = computer.memory]_vars

\* [104,43,4,0,99] has emitted 43 and then 104, and two output() calls in a
\* row have both returned 43, 104
C12_Witness ==
    /\ computer.output.kind = "Queue"
    /\ program = <<104, 43, 4, 0, 99>>
    /\ emitted = <<43, 104>>
    /\ snapshots = <<emitted, emitted>>

----------------------------------------------------------------------------
\* C13 as stated: once output() has returned, the output queue of the engine
\* is empty.
C13_OutputDrains ==
    (pc = "idle" /\ snapshots # <<>> /\ computer.output.kind = "Queue") =>
        computer.output.q = <<>>

\* C13: output() returns a copy of the output queue and leaves the engine as
\* it was, the queue included: a later output() returns the same values again.
C13_OutputCopies ==
    [][(Len(snapshots') = Len(snapshots) + 1 /\ computer.output.kind = "Queue") =>
          /\ snapshots'[Len(snapshots')] = computer.output.q
          /\ computer'.output.q = computer.output.q
          /\ computer' = computer]_vars

\* output() has returned 43, 104 twice and the queue still holds 43, 104
C13_Witness ==
    /\ computer.output.kind = "Queue"
    /\ computer.output.q = <<43, 104>>
    /\ snapshots = <<(<<43, 104>>), (<<43, 104>>)>>
    /\ pc = "idle"

----------------------------------------------------------------------------
\* C14: with a channel for output and no receiver left, an Output step does
\* not fail: the value is appended to alt_output, the pointer advances by 2,
\* memory is as it was, and output() returns the buffered values.
C14_ChannelOutputNoReceiver ==
    [][/\ (Fired /\ Decodes /\ Opcode = 4
             /\ computer.output.kind = "Channel"
             /\ computer.output.send = Disconnected) =>
            /\ StepOk(step_result')
            /\ computer'.alt_output = Append(computer.alt_output, Src(1))
            /\ computer'.loc = computer.loc + 2
            /\ computer'.memory = computer.memory
       /\ (Len(snapshots') = Len(snapshots) + 1
             /\ computer.output.kind = "Channel") =>
            /\ snapshots'[Len(snapshots')] = computer.alt_output
            /\ computer.alt_output = emitted]_vars

\* [4,2,43] with a channel whose receiver is gone: 43 is in alt_output, the
\* pointer is 2, and output() has returned 43
C14_Witness ==
    /\ computer.output = ChannelOut(Disconnected)
    /\ computer.memory = Mem(<<4, 2, 43>>)
    /\ computer.alt_output = <<43>>
    /\ computer.loc = 2
    /\ snapshots = <<(<<43>>)>>

----------------------------------------------------------------------------
\* the registers a jump, a comparison or a base adjustment is to leave alone
SameStreams ==
    /\ computer'.input = computer.input
    /\ computer'.output = computer.output
    /\ computer'.alt_output = computer.alt_output

\* C15: JumpIfTrue (5) sets the pointer to the resolved value of its second
\* operand when the resolved first operand is not 0 and advances by 3
\* otherwise; JumpIfFalse (6) jumps when the first operand is 0 and advances
\* by 3 otherwise. The target is resolved through its mode and is absolute;
\* memory, relative base, input and output are left alone.
C15_Jumps ==
    [][(Fired /\ Decodes /\ Opcode \in {5, 6}) =>
          /\ StepOk(step_result')
          /\ computer'.loc =
                IF (Opcode = 5) = (Src(1) # 0) THEN Src(2) ELSE computer.loc + 3
          /\ computer'.memory = computer.memory
          /\ computer'.relative_base = computer.relative_base
          /\ computer'.running
          /\ SameStreams]_vars

\* [6,3,3,0]: both operands are Position and name cell 3, which holds 0:
\* the jump is taken and the pointer is 0, the target cell's value, not 3
C15_Witness ==
    /\ steps = 1
    /\ StepOk(step_result)
    /\ instruction.v.name = "JumpIfFalse"
    /\ program = <<6, 3, 3, 0>>
    /\ computer.memory = Mem(program)
    /\ computer.loc = 0

----------------------------------------------------------------------------
\* C16: LessThan (7) writes 1 to the destination address if the first
\* resolved source is less than the second (signed) and 0 otherwise; Equals
\* (8) writes 1 if they are equal and 0 otherwise. Both advance the pointer
\* by 4 and modify no other cell.
C16_Comparisons ==
    [][(Fired /\ Executable /\ Opcode \in {7, 8}) =>
          /\ StepOk(step_result')
          /\ computer'.memory =
                Store(computer.memory, Addr(3),
                      IF Opcode = 7
                      THEN (IF Src(1) < Src(2) THEN 1 ELSE 0)
                      ELSE (IF Src(1) = Src(2) THEN 1 ELSE 0))
          /\ computer'.loc = computer.loc + 4
          /\ computer'.relative_base = computer.relative_base
          /\ computer'.running
          /\ SameStreams]_vars

\* [1107,-1,0,0]: -1 < 0 as signed values, so cell 0 holds 1 and the
\* pointer is 4
C16_Witness ==
    /\ steps = 1
    /\ StepOk(step_result)
    /\ instruction.v.name = "LessThan"
    /\ program = <<1107, -1, 0, 0>>
    /\ computer.memory = Mem(<<1, -1, 0, 0>>)
    /\ computer.loc = 4

----------------------------------------------------------------------------
\* C17: AdjustRelativeBase (9) adds the resolved value of its operand, which
\* may be negative, to the relative base, advances the pointer by 2 and
\* leaves memory alone. [109,-7] gives relative_base = -7 and pointer 2.
C17_AdjustRelativeBase ==
    [][(Fired /\ Decodes /\ Opcode = 9) =>
          /\ StepOk(step_result')
          /\ computer'.relative_base = computer.relative_base + Src(1)
          /\ computer'.loc = computer.loc + 2
          /\ computer'.memory = computer.memory
          /\ computer'.running
          /\ SameStreams
          /\ (computer.loc = 0 /\ computer.relative_base = 0
                /\ computer.memory = Mem(<<109, -7>>)) =>
                computer'.relative_base = -7 /\ computer'.loc = 2]_vars

\* [109,3,109,-7,99]: the second adjustment has added -7 to the base 3
C17_Witness ==
    /\ steps = 2
    /\ StepOk(step_result)
    /\ instruction.v.name = "AdjustRelativeBase"
    /\ program = <<109, 3, 109, -7, 99>>
    /\ computer.relative_base = -4
    /\ computer.loc = 4
    /\ computer.memory = Mem(program)

----------------------------------------------------------------------------
\* C18: Stop (99) sets running = false and leaves pointer, memory, relative
\* base, input and output as they were; it reads no operand cell, so it
\* succeeds even when no address after the pointer is populated.
C18_Stop ==
    [][(Fired /\ AtCell /\ WellFormed(Raw) /\ Opcode = 99) =>
          /\ StepOk(step_result')
          /\ computer' = [computer EXCEPT !.running = FALSE]]_vars

\* [99]: no cell after the pointer exists, and the engine has stopped where
\* it was
C18_Witness ==
    /\ steps = 1
    /\ StepOk(step_result)
    /\ instruction.v.name = "Stop"
    /\ computer.memory = Mem(<<99>>)
    /\ (computer.loc + 1) \notin DOMAIN computer.memory
    /\ computer.loc = 0
    /\ ~computer.running

----------------------------------------------------------------------------
\* C19: run() makes one step after another while the engine is running;
\* when Stop has executed it returns the value at address 0 at that moment,
\* and it returns the first error a step returns otherwise.
\* [1,1,1,4,99,5,6,0,99] returns 30; [1002,4,3,4,33] runs to its end with
\* memory [1002,4,3,4,99].
C19_Run ==
    [][/\ (pc = "run" /\ computer.running) => Fired
       /\ Fired => pc = "run" /\ computer.running
       /\ (Fired /\ StepOk(step_result')) => pc' = "run" /\ run_result' = run_result
       /\ (Fired /\ step_result'.some /\ ~step_result'.v.ok /\ step_result'.v # Panic) =>
             /\ pc' = "idle"
             /\ run_result' = step_result'
       /\ (pc = "run" /\ ~computer.running) =>
             /\ pc' = "idle"
             /\ computer' = computer
             /\ 0 \in DOMAIN computer.memory
             /\ run_result' = Some(Ok(computer.memory[0]))
       /\ (run_result'.some /\ run_result'.v.ok
             /\ program = <<1, 1, 1, 4, 99, 5, 6, 0, 99>>) =>
             run_result' = Some(Ok(30))
       /\ (run_result'.some /\ program = <<1002, 4, 3, 4, 33>>) =>
             /\ run_result' = Some(Ok(1002))
             /\ computer'.memory = Mem(<<1002, 4, 3, 4, 99>>)]_vars

\* run() on [1,1,1,4,99,5,6,0,99] has returned 30 after three steps
C19_Witness ==
    /\ program = <<1, 1, 1, 4, 99, 5, 6, 0, 99>>
    /\ run_result = Some(Ok(30))
    /\ steps = 3
    /\ pc = "idle"
    /\ ~computer.running
    /\ computer.memory = Mem(<<30, 1, 1, 4, 2, 5, 6, 0, 99>>)

----------------------------------------------------------------------------
\* C20: the five-engine feedback network with phase settings (9,8,7,6,5),
\* initial value 0 and the amplifier program on every engine reports
\* 139629729, whatever the interleaving of its threads.
C20_NetworkResult ==
    (program = Amplifier /\ reported.some) => reported = Some(139629729)

----------------------------------------------------------------------------
\* what the seeding thread of engine i sends, in order
SeedValues(i) == IF i = 1 THEN <<Phases[1], 0>> ELSE <<Phases[i]>>

\* C21: the first value every engine receives is its own phase setting, from
\* its seeding thread, and the second value of the first engine is the
\* initial value 0: no engine receives an output of the engine before it
\* ahead of its phase setting.
C21_PhaseFirst ==
    \A i \in DOMAIN received :
        \A k \in 1..Len(SeedValues(i)) :
            k <= Len(received[i]) =>
                received[i][k] = [from |-> "seed", v |-> SeedValues(i)[k]]

----------------------------------------------------------------------------
\* every engine has executed Stop and every seeding thread has sent its values
AllStopped ==
    /\ process = "up"
    /\ \A i \in Amps : ~amps[i].running /\ seeds[i].status = "done"

\* C22: with the amplifier program and a fair scheduler every engine of the
\* network reaches Stop and every seeding thread ends: no thread stays blocked
\* on a send or a receive, the last send of amp_e towards amp_a included.
C22_AllEnginesStop == (program = Amplifier) ~> AllStopped

\* all five engines have stopped, the four spawned threads have ended, and
\* amp_e's last send came back undelivered
C22_Witness ==
    /\ program = Amplifier
    /\ AllStopped
    /\ \A i \in Amps \ {Main} : threads[i] = "done"
    /\ Len(sent[Main]) = Len(received[Main]) - 1
    /\ amps[Main].alt_output # <<>>

----------------------------------------------------------------------------
\* the values engine i has taken from the engine before it, in order
FromAmp(i) ==
    LET m == SelectSeq(received[i], LAMBDA r : r.from = "amp")
    IN [k \in 1..Len(m) |-> m[k].v]

----------------------------------------------------------------------------
\* engine c is at an Input instruction whose operand cell is populated
AtInput(c) ==
    /\ c.loc \in DOMAIN c.memory
    /\ (c.loc + 1) \in DOMAIN c.memory
    /\ WellFormed(c.memory[c.loc])
    /\ c.memory[c.loc] % 100 = 3

\* the address the Input at the pointer of c writes to (modes 0 and 2)
InputAddr(c) ==
    IF Digit(c.memory[c.loc], 2) = 2
    THEN c.memory[c.loc + 1] + c.relative_base
    ELSE c.memory[c.loc + 1]

\* engine i takes a value in this transition
Takes(i) == Len(received'[i]) = Len(received[i]) + 1

\* every transmitter of the channel engine i receives from has been dropped
NoSender(i) == ~Seeding(i) /\ threads[Pred(i)] # "run"

\* amp_e.run() has returned with nothing in amp_e.output()
ReportFails ==
    threads[Main] = "run" /\ ~amps[Main].running /\ Computer_output(amps[Main]).v = <<>>

\* C24: an engine at a channel-backed Input changes only by taking a value
\* that a sender holding a transmitter of its channel hands over; it then has
\* written exactly that value to the destination and advanced by 2; and the
\* receive fails only when no transmitter of the channel is left (the spare
\* one of the seeding thread included).
C24_ChannelInput ==
    [][/\ \A i \in DOMAIN amps :
            /\ (Stepping(i) /\ AtInput(amps[i]) /\ amps'[i] # amps[i]) => Takes(i)
            /\ received'[i] # received[i] =>
                  LET m == received'[i][Len(received'[i])] IN
                  /\ Takes(i) /\ Stepping(i) /\ AtInput(amps[i])
                  /\ SubSeq(received'[i], 1, Len(received[i])) = received[i]
                  /\ \/ /\ m.from = "seed" /\ Seeding(i)
                        /\ m.v = Head(seeds[i].todo)
                        /\ seeds'[i].todo = Tail(seeds[i].todo)
                     \/ /\ m.from = "amp" /\ Stepping(Pred(i))
                        /\ sent'[Pred(i)] = Append(sent[Pred(i)], m.v)
                  /\ amps'[i].memory = Store(amps[i].memory, InputAddr(amps[i]), m.v)
                  /\ amps'[i].loc = amps[i].loc + 2
                  /\ amps'[i].running /\ amps'[i].relative_base = amps[i].relative_base
                  /\ process' = "up"
       /\ (process = "up" /\ process' = "exit" /\ ~ReportFails) =>
            \E i \in DOMAIN amps :
                Stepping(i) /\ AtInput(amps[i]) /\ NoSender(i) /\ amps'[i] = amps[i]]_vars

\* [3,0,3,0,99] on every engine: amp_b has taken its phase 8 from the seeding
\* thread and written it to address 0; its second recv() failed once amp_a's
\* thread had ended and dropped the last transmitter
C24_Witness ==
    /\ program = <<3, 0, 3, 0, 99>>
    /\ process = "exit"
    /\ received[2] = <<[from |-> "seed", v |-> Phases[2]]>>
    /\ amps[2].memory = Mem(<<Phases[2], 0, 3, 0, 99>>)
    /\ amps[2].loc = 2
    /\ threads[1] = "done"
    /\ seeds[2].status = "done"
----------------------------------------------------------------------------
\* engine c is at an Output instruction whose operand cell is populated
AtOutput(c) ==
    /\ c.loc \in DOMAIN c.memory
    /\ (c.loc + 1) \in DOMAIN c.memory
    /\ WellFormed(c.memory[c.loc])
    /\ c.memory[c.loc] % 100 = 4

\* the value the Output at the pointer of c emits
OutputValue(c) ==
    LET mode == Digit(c.memory[c.loc], 2)
        operand == c.memory[c.loc + 1]
    IN IF mode = 1 THEN operand
       ELSE Cell(c.memory, IF mode = 2 THEN operand + c.relative_base ELSE operand)

\* C25: with a channel for output the values an engine has emitted are, in
\* order, the values the receiver of its channel has taken from it followed by
\* the values in its overflow buffer: none is lost, none is in both places,
\* none twice. An engine at an Output moves on only when the receiver takes
\* the value in the same step or when the receiver is gone, and the value then
\* goes to the overflow buffer.
C25_NothingLost ==
    [][\A i \in DOMAIN amps :
          /\ sent'[i] = FromAmp(Succ(i))' \o amps'[i].alt_output
          /\ (Stepping(i) /\ AtOutput(amps[i]) /\ amps'[i] # amps[i]) =>
                /\ sent'[i] = Append(sent[i], OutputValue(amps[i]))
                /\ amps'[i].loc = amps[i].loc + 2
                /\ amps'[i].memory = amps[i].memory
                /\ \/ /\ Takes(Succ(i))
                      /\ received'[Succ(i)][Len(received'[Succ(i)])] =
                            [from |-> "amp", v |-> OutputValue(amps[i])]
                      /\ amps'[i].alt_output = amps[i].alt_output
                   \/ /\ threads[Succ(i)] # "run"
                      /\ received' = received
                      /\ amps'[i].alt_output =
                            Append(amps[i].alt_output, OutputValue(amps[i]))]_vars

\* the amplifier program: amp_d has emitted several values, amp_e has taken
\* every one of them, and amp_e's last value is in its own overflow buffer
C25_Witness ==
    /\ program = Amplifier
    /\ Len(sent[4]) > 1
    /\ amps[4].alt_output = <<>>
    /\ FromAmp(Main) = sent[4]
    /\ amps[Main].alt_output # <<>>
    /\ sent[Main] = FromAmp(1) \o amps[Main].alt_output
----------------------------------------------------------------------------
\* the engines whose state differs after this transition
Changed == {i \in DOMAIN amps : amps'[i] # amps[i]}

\* the change of engine i is a step (or steps) of engine i itself: what it
\* becomes is decided by its own state and, at an Input, by the value it takes
OwnStep(i) ==
    /\ Stepping(i)
    /\ IF AtInput(amps[i])
       THEN /\ Takes(i)
            /\ amps'[i] = Park(step_recv(amps[i],
                                 Ok(received'[i][Len(received'[i])].v)).c)
       ELSE IF AtOutput(amps[i])
       THEN \E r \in {Ok(Unit), Disconnected} : amps'[i] = Park(step_send(amps[i], r).c)
       ELSE \E n \in 1..MaxLocal : amps'[i] = Park(run_local(amps[i], n).c)

\* C26: in the network an engine's memory, pointer, relative base and running
\* flag change only by that engine's own steps. In every transition each
\* engine that changes makes a step of its own; at most two change at once,
\* and then they are an engine at an Output and the next engine taking just
\* that value through the channel between them.
C26_EnginesOwnTheirState ==
    [][/\ \A i \in Changed : OwnStep(i)
       /\ Cardinality(Changed) <= 2
       /\ \A i, j \in Changed :
             i # j =>
               \/ /\ j = Succ(i) /\ AtOutput(amps[i]) /\ AtInput(amps[j])
                  /\ received'[j][Len(received'[j])] =
                        [from |-> "amp", v |-> OutputValue(amps[i])]
               \/ /\ i = Succ(j) /\ AtOutput(amps[j]) /\ AtInput(amps[i])
                  /\ received'[i][Len(received'[i])] =
                        [from |-> "amp", v |-> OutputValue(amps[j])]]_vars

\* amp_a and amp_b have run and exchanged a value while amp_c, amp_d and
\* amp_e are still as make_computer built them
C26_Witness ==
    /\ program = Amplifier
    /\ FromAmp(2) # <<>>
    /\ amps[1] # make_computer(Amplifier)
    /\ amps[2] # make_computer(Amplifier)
    /\ \A i \in 3..Main : amps[i] = make_computer(Amplifier)
----------------------------------------------------------------------------
\* the last step() executed a Stop
StopExecuted ==
    steps > 0 /\ instruction.some /\ instruction.v.name = "Stop" /\ StepOk(step_result)

\* C27: the running flag is true from construction until a Stop executes and
\* false from then on: before the first step it is true; it is false exactly
\* when the last step executed a Stop; once run() has returned a value it is
\* false in every later state, whatever the caller calls; and after a step
\* that returned an error (or aborted) it is still true.
C27_Running ==
    /\ steps = 0 => computer.running
    /\ ~computer.running <=> StopExecuted
    /\ (run_result.some /\ run_result.v.ok) => ~computer.running
    /\ (step_result.some /\ ~StepOk(step_result)) => computer.running
    /\ (before.some /\ computer.running # before.v.running) =>
          (before.v.running /\ StopExecuted)

\* [1,1,1,4,99,5,6,0,99]: Stop was the third step of the first run(); the
\* caller has called run() a second time and the flag is still false
C27_Witness ==
    /\ program = <<1, 1, 1, 4, 99, 5, 6, 0, 99>>
    /\ steps = 3
    /\ calls = 2
    /\ pc = "idle"
    /\ before.some /\ before.v.running
    /\ ~computer.running
----------------------------------------------------------------------------
\* the value operand k of the instruction at the pointer of c resolves to
SrcOf(c, k) ==
    LET mode == Digit(c.memory[c.loc], k + 1)
        operand == c.memory[c.loc + k]
    IN IF mode = 1 THEN operand
       ELSE Cell(c.memory, IF mode = 2 THEN operand + c.relative_base ELSE operand)

\* the pointer after a successful step of the instruction at the pointer of c
NextLoc(c) ==
    LET op == c.memory[c.loc] % 100 IN
    CASE op \in {1, 2, 7, 8} -> c.loc + 4
      [] op \in {3, 4, 9} -> c.loc + 2
      [] op = 5 -> IF SrcOf(c, 1) # 0 THEN SrcOf(c, 2) ELSE c.loc + 3
      [] op = 6 -> IF SrcOf(c, 1) = 0 THEN SrcOf(c, 2) ELSE c.loc + 3
      [] op = 99 -> c.loc

\* C28: across a successful step the pointer moves by the length of the
\* instruction (4 for Add, Multiply, LessThan, Equals; 2 for Input, Output,
\* AdjustRelativeBase; 3 for a jump not taken), or to the target of a jump
\* taken, and stays where it is for Stop; the relative base changes only
\* across an AdjustRelativeBase.
C28_PointerMoves ==
    (before.some /\ StepOk(step_result)) =>
        /\ before.v.loc \in DOMAIN before.v.memory
        /\ (before.v.memory[before.v.loc] % 100) \in Opcodes
        /\ computer.loc = NextLoc(before.v)
        /\ computer.relative_base # before.v.relative_base =>
              before.v.memory[before.v.loc] % 100 = 9

\* [1105,1,20]: the jump was taken and the pointer is 20, not 0 + 3
C28_Witness ==
    /\ program = <<1105, 1, 20>>
    /\ before.some /\ before.v.loc = 0
    /\ StepOk(step_result)
    /\ instruction.v.name = "JumpIfTrue"
    /\ computer.loc = 20
    /\ computer.relative_base = 0
----------------------------------------------------------------------------
OutOfRange == "Current location is out of range."

\* C29: a step made with the pointer at an address that was never written
\* returns the out-of-range error and changes nothing; the cell is not read
\* as 0 (a 0 there would be refused as a non-positive instruction word).
C29_PointerOutOfRange ==
    (before.some /\ before.v.loc \notin DOMAIN before.v.memory) =>
        /\ Returned(step_result, OutOfRange)
        /\ read_instruction_code(0) # Err(OutOfRange)
        /\ decoded = None
        /\ instruction = None
        /\ computer = before.v

\* [1105,1,20]: the jump has put the pointer on address 20, which no one has
\* written; the second step failed and the engine is as the jump left it
C29_Witness ==
    /\ program = <<1105, 1, 20>>
    /\ steps = 2
    /\ before.some /\ before.v.loc = 20
    /\ Returned(step_result, OutOfRange)
    /\ computer.loc = 20
    /\ computer.memory = Mem(<<1105, 1, 20>>)
    /\ computer.running
----------------------------------------------------------------------------
\* C30: right after construction the engine is running with pointer 0 and
\* relative base 0; cell i of its memory holds the i-th element (from 0) of
\* the sequence given and no other address is populated; the overflow buffer
\* is empty; the input queue holds what the caller supplied, nothing when no
\* input was supplied; and an output queue is empty.
C30_Construction ==
    steps = 0 =>
        /\ computer.running
        /\ computer.loc = 0
        /\ computer.relative_base = 0
        /\ \A a \in DOMAIN computer.memory : 0 <= a /\ a < Len(program)
        /\ \A i \in 1..Len(program) :
              (i - 1) \in DOMAIN computer.memory /\ computer.memory[i - 1] = program[i]
        /\ computer.alt_output = <<>>
        /\ computer.input.kind = "Queue" /\ computer.input.q = supplied
        /\ computer.output.kind = "Queue" => computer.output.q = <<>>

\* the engine built from [1002,4,3,4,33] with neither input nor output given,
\* as run() finds it before its first step
C30_Witness ==
    /\ steps = 0
    /\ calls = 1
    /\ pc = "run"
    /\ program = <<1002, 4, 3, 4, 33>>
    /\ supplied = <<>>
    /\ computer.memory = Mem(<<1002, 4, 3, 4, 33>>)
    /\ 5 \notin DOMAIN computer.memory
    /\ computer.input = Queue(<<>>)
    /\ computer.output = Queue(<<>>)
----------------------------------------------------------------------------
\* the address the writing instruction at the pointer of c stores to
DstAddrOf(c) ==
    LET k == IF c.memory[c.loc] % 100 = 3 THEN 1 ELSE 3
        operand == c.memory[c.loc + k]
    IN IF Digit(c.memory[c.loc], k + 1) = 2 THEN operand + c.relative_base ELSE operand

\* the value the writing instruction at the pointer of c stores
WrittenOf(c) ==
    LET op == c.memory[c.loc] % 100 IN
    CASE op = 1 -> SrcOf(c, 1) + SrcOf(c, 2)
      [] op = 2 -> SrcOf(c, 1) * SrcOf(c, 2)
      [] op = 3 -> Head(c.input.q)
      [] op = 7 -> IF SrcOf(c, 1) < SrcOf(c, 2) THEN 1 ELSE 0
      [] op = 8 -> IF SrcOf(c, 1) = SrcOf(c, 2) THEN 1 ELSE 0

\* C31: operands resolve through the relative base the engine had when the
\* step began. Every operand of the decoded instruction carries that base; a
\* successful step stores its result at value + that base for a Relative
\* destination (at value for Position), emits or adds the source read at
\* value + that base for a Relative source (memory[value] for Position, the
\* literal for Immediate); AdjustRelativeBase reads its source through the
\* old base and the new base is the old one plus that value.
C31_BaseAtDecode ==
    (before.some /\ StepOk(step_result)) =>
        LET b == before.v
            op == b.memory[b.loc] % 100
        IN /\ \A k \in DOMAIN instruction.v.args :
                 /\ instruction.v.args[k].relative_base = b.relative_base
                 /\ instruction.v.args[k].value = b.memory[b.loc + k]
           /\ op \in Writing => computer.memory = Store(b.memory, DstAddrOf(b), WrittenOf(b))
           /\ op \notin Writing => computer.memory = b.memory
           /\ op = 4 => Sink(computer) = Append(Sink(b), SrcOf(b, 1))
           /\ computer.relative_base =
                 IF op = 9 THEN b.relative_base + SrcOf(b, 1) ELSE b.relative_base

\* [109,3,209,-1]: with the base 3 the second instruction reads its source at
\* -1 + 3 = 2, the cell holding 209, and the base becomes 3 + 209
C31_Witness ==
    /\ program = <<109, 3, 209, -1>>
    /\ steps = 2
    /\ StepOk(step_result)
    /\ before.some /\ before.v.relative_base = 3 /\ before.v.loc = 2
    /\ instruction.v.name = "AdjustRelativeBase"
    /\ instruction.v.args[1].kind = "Relative"
    /\ computer.relative_base = 212
----------------------------------------------------------------------------
\* an initial_state that takes its phase and a signal, emits the signal plus
\* one and stops, except that the engine whose signal was 0 (the first one)
\* goes on to the last cell, an Input without its operand cell
Relay == <<3, 20, 3, 21, 1001, 21, 1, 22, 4, 22, 1006, 21, 14, 99, 3>>

\* the network of part 2, also with Relay as initial_state
InitNetAbort ==
    /\ NoEngine
    /\ NoSide
    /\ \E p \in NetPrograms \cup {Relay} :
         /\ program = p
         /\ amps = [i \in Amps |-> make_computer(p)]
    /\ seeds = [i \in Amps |-> [todo |-> SeedValues(i), status |-> "run"]]
    /\ threads = [i \in Amps |-> "run"]
    /\ received = [i \in Amps |-> <<>>]
    /\ sent = [i \in Amps |-> <<>>]
    /\ reported = None
    /\ process = "up"

NetAbortSpec == InitNetAbort /\ [][NetNext]_vars

\* an engine of the network has failed: its run() returned an error (the
\* process exits in the same step), or its step aborted the thread
EngineFailed ==
    \/ process = "exit"
    \/ process = "abort"
    \/ \E i \in DOMAIN threads : threads[i] = "panicked"

\* C32: in the network an engine failure is fatal to the whole process: once
\* any engine has failed, no result is reported.
C32_FailureIsFatal == [][EngineFailed => reported' = reported]_vars
----------------------------------------------------------------------------
\* day7 part 1: five engines run one after another for each permutation of
\* the phase settings.

\* the permutations of the elements of S, as sequences
PermutationsOf(S) ==
    {p \in [1..Cardinality(S) -> S] : \A i, j \in DOMAIN p : i # j => p[i] # p[j]}

\* p comes before q in the order of itertools' permutations() over a sorted range
LexLess(p, q) ==
    \E i \in DOMAIN p : p[i] < q[i] /\ \A j \in 1..(i - 1) : p[j] = q[j]

\* (0..5).permutations(5), in the order the loop visits them
possibilities ==
    LET all == PermutationsOf(0..4) IN
    [n \in 1..Cardinality(all) |->
        CHOOSE p \in all : Cardinality({q \in all : LexLess(q, p)}) = n - 1]

\* run(): while self.running { self.step()?; } self.result(), for the programs
\* whose run ends within n steps: result is Some(the Result, or Panic), and
\* None for a run still in its loop after n steps
RECURSIVE Computer_run(_, _)
Computer_run(c, n) ==
    IF ~c.running THEN [c |-> c, result |-> Some(Computer_result(c))]
    ELSE IF n = 0 THEN [c |-> c, result |-> None]
    ELSE The({IF s.result.ok THEN Computer_run(s.c, n - 1)
              ELSE [c |-> s.c, result |-> Some(s.result)]
              : s \in {Computer_step(c)}})

\* an amplifier program for part 1 (its best chain gives 43210), one that
\* emits -1 whatever it is given, one that stops without output, one whose
\* third Input finds the queue empty, and one that aborts
ChainAmplifier == <<3, 15, 3, 16, 1002, 16, 10, 16, 1, 16, 15, 15, 4, 15, 99, 0, 0>>
ChainPrograms ==
    {ChainAmplifier, <<3, 0, 3, 1, 104, -1, 99>>, <<99>>, <<3, 0, 3, 0, 3, 0, 99>>, <<3>>}

\* lines 76-78: the engine of one phase, run to its end
ChainRun(initial_state, phase, result) ==
    Computer_run(Computer_new(initial_state, Some(Queue(<<phase, result>>)), None), MaxRun)

InitChain ==
    /\ NoEngine
    /\ NoNetwork
    /\ day2 = None
    /\ program \in ChainPrograms
    /\ chain = Some([done |-> 0, k |-> 0, result |-> 0, max_result |-> 0, status |-> "run"])

\* lines 75-94: the body of the inner loop, for the next phase of the permutation
ChainEngine ==
    /\ chain.some /\ chain.v.status = "run"
    /\ chain.v.done < Len(possibilities)
    /\ chain.v.k < Len(possibilities[chain.v.done + 1])
    /\ \E r \in {ChainRun(program, possibilities[chain.v.done + 1][chain.v.k + 1],
                           chain.v.result)} :
         /\ r.result.some
         /\ chain' =
              IF r.result.v = Panic THEN Some([chain.v EXCEPT !.status = "abort"])
              ELSE IF ~r.result.v.ok THEN Some([chain.v EXCEPT !.status = "exit"])
              ELSE IF Computer_output(r.c).v = <<>>
                   THEN Some([chain.v EXCEPT !.status = "exit"])
                   ELSE Some([chain.v EXCEPT !.result = Head(Computer_output(r.c).v),
                                             !.k = chain.v.k + 1])
    /\ UNCHANGED <<day2>>
    /\ UNCHANGED engine_vars
    /\ UNCHANGED net_vars

\* lines 73-74, 97-99: the permutation is through; max_result keeps the larger
\* value and the next permutation starts with result = 0
ChainCompare ==
    /\ chain.some /\ chain.v.status = "run"
    /\ chain.v.done < Len(possibilities)
    /\ chain.v.k = Len(possibilities[chain.v.done + 1])
    /\ chain' = Some([chain.v EXCEPT
                        !.max_result = IF chain.v.result > @ THEN chain.v.result ELSE @,
                        !.done = @ + 1,
                        !.k = 0,
                        !.result = 0])
    /\ UNCHANGED <<day2>>
    /\ UNCHANGED engine_vars
    /\ UNCHANGED net_vars

\* line 102: println!("{}", max_result)
ChainPrint ==
    /\ chain.some /\ chain.v.status = "run"
    /\ chain.v.done = Len(possibilities)
    /\ chain' = Some([chain.v EXCEPT !.status = "printed"])
    /\ UNCHANGED <<day2>>
    /\ UNCHANGED engine_vars
    /\ UNCHANGED net_vars

ChainNext == ChainEngine \/ ChainCompare \/ ChainPrint

ChainSpec == InitChain /\ [][ChainNext]_vars

\* r_k of the permutation p: Some(the first output of engine k), or None when
\* an engine up to k failed or stopped without output
RECURSIVE ChainValue(_, _)
ChainValue(p, k) ==
    IF k = 0 THEN Some(0)
    ELSE The({IF ~prev.some THEN None
              ELSE The({IF r.result.some /\ r.result.v # Panic /\ r.result.v.ok
                           /\ Sink(r.c) # <<>>
                        THEN Some(Head(Sink(r.c)))
                        ELSE None
                        : r \in {ChainRun(program, p[k], prev.v)}})
              : prev \in {ChainValue(p, k - 1)}})

Maximum(S) == CHOOSE m \in S : \A x \in S : x <= m

\* C33: in the chain of part 1 engine k gets the queue [phase_k, r_(k-1)]
\* with r_0 = 0 and r_k is the first value of its output; the value printed
\* is the maximum of r_5 over all permutations of the phases 0..4; and the
\* computation ends without a value exactly when an engine fails or stops
\* without output.
C33_Chain ==
    chain.some =>
        LET c == chain.v
            n == Len(possibilities)
        IN /\ (c.status = "run" /\ c.done < n) =>
                 ChainValue(possibilities[c.done + 1], c.k) = Some(c.result)
           /\ c.status \in {"exit", "abort"} =>
                 ~ChainValue(possibilities[c.done + 1], c.k + 1).some
           /\ c.status = "printed" =>
                 /\ \A i \in 1..n : ChainValue(possibilities[i], 5).some
                 /\ c.max_result =
                       Maximum({ChainValue(possibilities[i], 5).v : i \in 1..n})
----------------------------------------------------------------------------
\* s is the end of t
IsSuffix(s, t) ==
    /\ Len(s) <= Len(t)
    /\ s = SubSeq(t, Len(t) - Len(s) + 1, Len(t))

\* s is the beginning of t
IsPrefix(s, t) ==
    /\ Len(s) <= Len(t)
    /\ s = SubSeq(t, 1, Len(s))

\* C34: for an engine whose output is a channel, output() returns exactly
\* the overflow buffer: the values whose send failed, in the order they were
\* emitted, and none that was delivered; for an engine whose output is a queue
\* the overflow buffer is empty in every reachable state.
C34_OverflowBuffer ==
    /\ computer.output.kind = "Queue" => computer.alt_output = <<>>
    /\ computer.output.kind = "Channel" =>
         /\ Computer_output(computer).v = computer.alt_output
         /\ Computer_output(computer).c = computer
         /\ IsSuffix(computer.alt_output, emitted)
         /\ computer.output.send.ok => computer.alt_output = <<>>
         /\ \A n \in DOMAIN snapshots : IsPrefix(snapshots[n], computer.alt_output)
         /\ (before.some /\ StepOk(step_result) /\ before.v.memory[before.v.loc] % 100 = 4) =>
               computer.alt_output =
                   IF before.v.output.send.ok THEN before.v.alt_output
                   ELSE Append(before.v.alt_output, SrcOf(before.v, 1))

\* [104,43,4,0,99]: 43 is delivered, the receiver goes away, 104 is buffered
C34_Witness ==
    /\ program = <<104, 43, 4, 0, 99>>
    /\ emitted = <<43, 104>>
    /\ computer.output = ChannelOut(Disconnected)
    /\ computer.alt_output = <<104>>
    /\ snapshots = <<(<<104>>)>>
    /\ ~computer.running
----------------------------------------------------------------------------
EmptyMemory == "Empty memory!"

\* C35: the set of populated addresses never shrinks: no step removes an
\* address, so every address of the initial program stays populated; run()
\* never returns "Empty memory!" once a step has succeeded; and an engine
\* built with an empty memory fails its first step with the out-of-range
\* error.
C35_MemoryGrows ==
    /\ before.some => DOMAIN before.v.memory \subseteq DOMAIN computer.memory
    /\ DOMAIN Mem(program) \subseteq DOMAIN computer.memory
    /\ StepOk(step_result) => 0 \in DOMAIN computer.memory
    /\ program # <<>> => 0 \in DOMAIN computer.memory
    /\ run_result # Some(Err(EmptyMemory))
    /\ program # <<>> => Computer_result(computer) # Err(EmptyMemory)
    /\ (program = <<>> /\ steps > 0) =>
         /\ Returned(step_result, OutOfRange)
         /\ run_result = Some(Err(OutOfRange))
         /\ computer.memory = Mem(<<>>)
         /\ computer.running

\* a write beyond the program has added an address, and run() has returned cell 0
C35_Witness ==
    /\ before.some
    /\ \E a \in DOMAIN computer.memory : a >= Len(program)
    /\ run_result.some /\ run_result.v.ok
    /\ run_result.v.v = computer.memory[0]
----------------------------------------------------------------------------
\* a second engine built from the same memory and input queue and stepped n
\* times: [c |-> the engine, result |-> the Result of its last step (or None)]
RECURSIVE Lockstep(_, _, _)
Lockstep(memory, queue, n) ==
    IF n = 0
    THEN [c |-> Computer_new(memory, Some(Queue(queue)), None), result |-> None]
    ELSE The({The({[c |-> s.c, result |-> Some(s.result)] : s \in {Computer_step(prev.c)}})
              : prev \in {Lockstep(memory, queue, n - 1)}})

----------------------------------------------------------------------------
\* The Computer of day2.rs: memory is a Vec<usize>, the pointer a usize.  It
\* runs here beside the engine of intcode.rs, both built from the same
\* program and stepped together.  The values of the programs below stay far
\* under the limits of usize and of the engine's integer type.

\* Vec::get: element i (counted from 0) or None
Vec_get(v, i) == IF i >= 0 /\ i < Len(v) THEN Some(v[i + 1]) ELSE None

\* mem_lookup that takes the cell itself as the value
Day2_mem_lookup_direct(memory, location) == Vec_get(memory, location)

\* self.memory[self.memory[location]]; None stands for the index panic
Day2_mem_lookup(memory, location) ==
    IF ~Vec_get(memory, location).some THEN None
    ELSE Vec_get(memory, Vec_get(memory, location).v)

Day2_new(memory) == [memory |-> memory, loc |-> 0, running |-> TRUE]

Unexpected == "Unexpected register value!"

\* step(): [c |-> the Computer after the call, result |-> its Result (or Panic)]
Day2_step(c) ==
    LET op == Vec_get(c.memory, c.loc) IN
    IF op = Some(99) THEN [c |-> [c EXCEPT !.running = FALSE], result |-> Ok(Unit)]
    ELSE IF op \notin {Some(1), Some(2)} THEN [c |-> c, result |-> Err(Unexpected)]
    ELSE The({
         IF ~target.some \/ ~a.some \/ ~b.some
         THEN [c |-> c, result |-> Panic]
         ELSE IF ~Vec_get(c.memory, target.v).some
              THEN [c |-> [c EXCEPT !.loc = c.loc + 4], result |-> Panic]
              ELSE [c |-> [c EXCEPT !.loc = c.loc + 4,
                                    !.memory[target.v + 1] =
                                        IF op.v = 1 THEN a.v + b.v ELSE a.v * b.v],
                    result |-> Ok(Unit)]
         : target \in {Vec_get(c.memory, c.loc + 3)},
           a \in {Day2_mem_lookup(c.memory, c.loc + 1)},
           b \in {Day2_mem_lookup(c.memory, c.loc + 2)}})

Day2_result(c) ==
    LET a == Vec_get(c.memory, 0) IN
    IF a.some THEN Ok(a.v) ELSE Err("Empty memory!")

\* the step about to be made stays inside the program: the cell at the
\* pointer is 1, 2 or 99, and for 1 and 2 the three operand cells and the
\* three addresses they hold are cells of the program
InsideStep(c) ==
    /\ Vec_get(c.memory, c.loc).some
    /\ Vec_get(c.memory, c.loc).v \in {1, 2, 99}
    /\ Vec_get(c.memory, c.loc).v \in {1, 2} =>
         \A k \in 1..3 :
            /\ Vec_get(c.memory, c.loc + k).some
            /\ Vec_get(c.memory, Vec_get(c.memory, c.loc + k).v).some

\* the programs of the tests of day2.rs, every program of one instruction
\* followed by 99 and every program of two instructions followed by 99 with
\* operands that name the cells 0, 4 and 8 (past the end for the short ones)
Day2Tests ==
    {<<1, 0, 0, 0, 99>>, <<2, 3, 0, 3, 99>>, <<2, 4, 4, 5, 99, 0>>,
     <<1, 1, 1, 4, 99, 5, 6, 0, 99>>}
Day2Operands == {0, 4, 8}
Day2Programs ==
    Day2Tests \cup {<<>>, <<99>>, <<1, 0, 0, 0>>, <<3, 0, 99>>}
    \cup {<<op, a, b, t, 99>> : op \in {1, 2}, a \in 0..5, b \in 0..5, t \in 0..5}
    \cup {<<op1>> \o abt1 \o <<op2>> \o abt2 \o <<99>> :
             op1 \in {1, 2}, op2 \in {1, 2},
             abt1 \in SeqsOfLen(Day2Operands, 3), abt2 \in SeqsOfLen(Day2Operands, 3)}

InitDay2 ==
    /\ NoNetwork
    /\ chain = None
    /\ \E p \in Day2Programs :
         /\ program = p
         /\ computer = Computer_new(p, None, None)
         /\ day2 = Some([c |-> Day2_new(p), step_result |-> None, run_result |-> None,
                         inside |-> TRUE])
    /\ supplied = <<>>
    /\ inputs_done = 0
    /\ emitted = <<>>
    /\ snapshots = <<>>
    /\ pc = "idle"
    /\ calls = 0
    /\ steps = 0
    /\ decoded = None
    /\ instruction = None
    /\ step_result = None
    /\ run_result = None
    /\ before = None

\* one iteration of the loop of run() in both engines
BothStep ==
    /\ pc = "run"
    /\ computer.running
    /\ day2.v.c.running
    /\ day2.v.step_result \in {None, Some(Ok(Unit))}
    /\ steps < MaxSteps
    /\ \E s \in {Computer_step(computer)}, d \in {Day2_step(day2.v.c)} :
         /\ computer' = s.c
         /\ before' = Some(computer)
         /\ decoded' = s.decoded
         /\ instruction' = s.instruction
         /\ step_result' = Some(s.result)
         /\ steps' = steps + 1
         /\ IF s.result.ok
            THEN pc' = "run" /\ run_result' = run_result
            ELSE IF s.result = Panic
                 THEN pc' = "panicked" /\ run_result' = run_result
                 ELSE pc' = "idle" /\ run_result' = Some(s.result)
         /\ day2' = Some([c |-> d.c,
                          step_result |-> Some(d.result),
                          run_result |-> IF d.result = Panic \/ d.result.ok
                                         THEN day2.v.run_result ELSE Some(d.result),
                          inside |-> day2.v.inside /\ InsideStep(day2.v.c)])
    /\ UNCHANGED <<calls, program, supplied, snapshots, inputs_done, emitted, chain>>
    /\ UNCHANGED net_vars

\* both loops have ended with running = false: each run() returns self.result()
BothReturn ==
    /\ pc = "run"
    /\ ~computer.running
    /\ ~day2.v.c.running
    /\ pc' = "idle"
    /\ run_result' = Some(Computer_result(computer))
    /\ day2' = Some([day2.v EXCEPT !.run_result = Some(Day2_result(day2.v.c))])
    /\ UNCHANGED <<computer, calls, steps, decoded, instruction, step_result,
                   program, supplied, inputs_done, emitted, snapshots, before, chain>>
    /\ UNCHANGED net_vars

Day2Next == CallRun \/ BothStep \/ BothReturn

Day2Spec == InitDay2 /\ [][Day2Next]_vars

\* C37: on programs over the opcodes 1, 2 and 99 with non-negative cells
\* whose instruction windows and operand addresses stay inside the initial
\* program, the Computer of day2 and the sparse-memory engine go through the
\* same (memory, pointer, running) states step by step, every step succeeds
\* in both, and both run() calls return the same cell-0 value.
C37_Day2Agrees ==
    (day2.some /\ day2.v.inside) =>
        /\ computer.memory = Mem(day2.v.c.memory)
        /\ computer.loc = day2.v.c.loc
        /\ computer.running = day2.v.c.running
        /\ computer.relative_base = 0
        /\ step_result = day2.v.step_result
        /\ steps > 0 => StepOk(step_result)
        /\ run_result = day2.v.run_result
        /\ run_result.some => run_result.v = Ok(computer.memory[0])

\* the program of test_run: the first Add rewrites cell 4 to a Multiply, and
\* both engines return 30
C37_Witness ==
    /\ day2.some /\ day2.v.inside
    /\ program = <<1, 1, 1, 4, 99, 5, 6, 0, 99>>
    /\ steps = 3
    /\ day2.v.run_result = Some(Ok(30))
    /\ run_result = Some(Ok(30))
    /\ ~computer.running
====
